---- MODULE Spec2Model ----
(***************************************************************************)
(* Persona / Personal data-management layer of the roleplay application:   *)
(* the CRUD operations of src/lib/data/roleplay/personal-operation.ts over *)
(* the persisted collections Persona, PersonaSettings, Personal and        *)
(* PersonalSettings.  Every operation is an async function that reads the  *)
(* whole collection, changes the copy and writes it back; an action below  *)
(* is one such call run to completion.                                     *)
(***************************************************************************)
EXTENDS Integers, Sequences, FiniteSets, TLC

(* ---------------------------------------------------------------------- *)
(* Bounds of the model                                                     *)
(* ---------------------------------------------------------------------- *)
\* number of distinct entity ids the callers use
MaxIds == 2

IdPool == <<"a", "b", "c", "d">>

\* entity ids (non-empty strings) and character ids the callers may pass
Ids == {IdPool[i] : i \in 1..MaxIds}
Chars == {"ch1"}
\* names the callers may pass: the empty string and a non-empty one.  No
\* operation branches on a name except on its being empty.
Names == {"", "Ann"}

\* JavaScript null (as an id) and the optional result of a lookup:
\* <<>> is null, <<e>> is the entity e
NULL == "null"
None == <<>>
Some(e) == <<e>>

VARIABLES
    personaFile,          \* PERSONA_FILE: the stored Persona[]
    personaSettingsFile,  \* PERSONA_SETTINGS_FILE: [] or [settings]
    personalFile,         \* PERSONAL_FILE: the stored Personal[]
    personalSettingsFile, \* PERSONAL_SETTINGS_FILE: [] or [settings]
    kind,                 \* which of the two operation sets this run calls:
                          \* the Persona and the Personal operations share no
                          \* storage key, so their calls commute and a run
                          \* exercises one set
    last                  \* the last completed call: name, arguments, result

VARIABLES
    fonts,                \* useMessageFontStore and the document it loads fonts into
    plugin,               \* module state of the dialogue statistics plugin
    editor,               \* component state of the mounted PersonaEditor/PersonalEditor
    saves,                \* the save calls in progress, each with the array it read
    chats                 \* a mounted recent-chats component and the dialogue trees

storeVars == <<personaFile, personaSettingsFile, personalFile, personalSettingsFile>>
auxVars == <<fonts, plugin, editor, saves, chats>>
\* what the font store, the plugin, the editor leave alone
notFonts == <<personaFile, personaSettingsFile, personalFile, personalSettingsFile,
              kind, last, plugin, editor, saves, chats>>
notPlugin == <<personaFile, personaSettingsFile, personalFile, personalSettingsFile,
               kind, fonts, editor, saves, chats>>
vars == <<personaFile, personaSettingsFile, personalFile, personalSettingsFile,
          kind, last, fonts, plugin, editor, saves, chats>>

(* ---------------------------------------------------------------------- *)
(* Storage collaborator and array helpers                                  *)
(* ---------------------------------------------------------------------- *)
\* readData(key) yields the array stored under key, writeData(key, v) replaces it
readData(file) == file
writeData(value) == value

\* Array.prototype.findIndex on the id; 0 stands for JavaScript's -1
findIndex(s, id) ==
    IF \E i \in 1..Len(s) : s[i].id = id
    THEN CHOOSE i \in 1..Len(s) :
            /\ s[i].id = id
            /\ \A j \in 1..(i - 1) : s[j].id # id
    ELSE 0

\* Array.prototype.find((p) => p.isDefault), as an index; 0 when none
findDefaultIndex(s) ==
    IF \E i \in 1..Len(s) : s[i].isDefault
    THEN CHOOSE i \in 1..Len(s) :
            /\ s[i].isDefault
            /\ \A j \in 1..(i - 1) : ~s[j].isDefault
    ELSE 0

\* delete obj[key] on a Record<string, string>
deleteKey(m, k) == [c \in (DOMAIN m) \ {k} |-> m[c]]
\* obj[key] = v
setKey(m, k, v) == [c \in (DOMAIN m) \cup {k} |-> IF c = k THEN v ELSE m[c]]

EmptyMap == [c \in {} |-> NULL]

(* ---------------------------------------------------------------------- *)
(* Persona model (persona-model.ts)                                        *)
(* ---------------------------------------------------------------------- *)
\* A Persona is modelled by the fields the operations read or that tell two
\* versions of it apart: id, name and isDefault.  description and avatar are
\* payload carried along with name; the createdAt/updatedAt stamps are
\* written (save, setDefault) but read by no operation and are left out.
createEmptyPersonaFlagged(id) ==
    [id |-> id, name |-> "", isDefault |-> TRUE]

createEmptyPersona(id) ==
    [id |-> id, name |-> "", isDefault |-> FALSE]

createDefaultPersona(id, username) ==
    [id |-> id, name |-> (IF username # "" THEN username ELSE "User"),
     isDefault |-> TRUE]

(* ---------------------------------------------------------------------- *)
(* Persona operations                                                      *)
(* ---------------------------------------------------------------------- *)
getAllPersonas(file) == readData(file)

getPersonaById(file, id) ==
    LET personas == getAllPersonas(file)
        i == findIndex(personas, id)
    IN  IF i > 0 THEN Some(personas[i]) ELSE None

\* getDefaultPersona returning personas[0] whatever the flags
getDefaultPersonaFirstOnly(file) ==
    LET personas == getAllPersonas(file)
    IN  IF Len(personas) > 0 THEN Some(personas[1]) ELSE None

getDefaultPersona(file) ==
    LET personas == getAllPersonas(file)
        i == findDefaultIndex(personas)
    IN  IF i > 0 THEN Some(personas[i])
        ELSE IF Len(personas) > 0 THEN Some(personas[1])
        ELSE None

\* savePersona without the forEach that clears the flag on the other entities
savePersonaKeepsFlags(file, persona) ==
    LET personas == getAllPersonas(file)
        index == findIndex(personas, persona.id)
    IN  IF index > 0
        THEN [personas EXCEPT ![index] = persona]
        ELSE Append(personas, persona)

\* savePersona pushing always, also when the id is already stored
savePersonaAlwaysPushes(file, persona) ==
    LET upserted == Append(getAllPersonas(file), persona)
    IN  IF persona.isDefault
        THEN [i \in 1..Len(upserted) |->
                IF upserted[i].id # persona.id
                THEN [upserted[i] EXCEPT !.isDefault = FALSE]
                ELSE upserted[i]]
        ELSE upserted

\* the array savePersona writes
savePersona(file, persona) ==
    LET personas == getAllPersonas(file)
        index == findIndex(personas, persona.id)
        upserted == IF index > 0
                    THEN [personas EXCEPT ![index] = persona]
                    ELSE Append(personas, persona)
    IN  IF persona.isDefault
        THEN [i \in 1..Len(upserted) |->
                IF upserted[i].id # persona.id
                THEN [upserted[i] EXCEPT !.isDefault = FALSE]
                ELSE upserted[i]]
        ELSE upserted

getPersonaSettings(sfile) ==
    LET settings == readData(sfile)
    IN  IF Len(settings) = 0
        THEN [defaultPersonaId |-> NULL, characterPersonaMap |-> EmptyMap]
        ELSE settings[1]

savePersonaSettingsAppends(settings) == writeData(<<settings, settings>>)

savePersonaSettings(settings) == writeData(<<settings>>)

\* deletePersona without the election of a new default
deletePersonaFilteredNoElection(file, id) ==
    SelectSeq(getAllPersonas(file), LAMBDA p : p.id # id)

\* deletePersona electing personas[0] of the unfiltered array
deletePersonaFilteredElectsUnfiltered(file, id) ==
    LET personas == getAllPersonas(file)
        elected == IF Len(personas) > 0
                      /\ ~(\E i \in 1..Len(personas) :
                              personas[i].id # id /\ personas[i].isDefault)
                   THEN [personas EXCEPT ![1].isDefault = TRUE]
                   ELSE personas
    IN  SelectSeq(elected, LAMBDA p : p.id # id)

\* the array deletePersona writes
deletePersonaFiltered(file, id) ==
    LET personas == getAllPersonas(file)
        filtered == SelectSeq(personas, LAMBDA p : p.id # id)
    IN  IF Len(filtered) > 0 /\ ~(\E i \in 1..Len(filtered) : filtered[i].isDefault)
        THEN [filtered EXCEPT ![1].isDefault = TRUE]
        ELSE filtered

\* deletePersona without the pruning of characterPersonaMap
deletePersonaSettingsKeepsMap(sfile, filtered, id) ==
    LET settings == getPersonaSettings(sfile)
    IN  [settings EXCEPT !.defaultPersonaId =
            IF @ = id
            THEN (IF Len(filtered) > 0 THEN filtered[1].id ELSE NULL)
            ELSE @]

\* the settings record deletePersona saves
deletePersonaSettings(sfile, filtered, id) ==
    LET settings == getPersonaSettings(sfile)
        newDefault == IF settings.defaultPersonaId = id
                      THEN (IF Len(filtered) > 0 THEN filtered[1].id ELSE NULL)
                      ELSE settings.defaultPersonaId
        map == settings.characterPersonaMap
        kept == {c \in DOMAIN map : map[c] # id}
    IN  [defaultPersonaId |-> newDefault,
         characterPersonaMap |-> [c \in kept |-> map[c]]]

\* setDefaultPersona setting the flag on id without clearing the others
setDefaultPersonaListSetsOnly(file, id) ==
    LET personas == getAllPersonas(file)
    IN  [i \in 1..Len(personas) |->
            IF personas[i].id = id
            THEN [personas[i] EXCEPT !.isDefault = TRUE]
            ELSE personas[i]]

\* the array setDefaultPersona writes
setDefaultPersonaList(file, id) ==
    LET personas == getAllPersonas(file)
    IN  [i \in 1..Len(personas) |->
            [personas[i] EXCEPT !.isDefault = (personas[i].id = id)]]

\* the settings record setDefaultPersona saves
setDefaultPersonaSettings(sfile, id) ==
    [getPersonaSettings(sfile) EXCEPT !.defaultPersonaId = id]

\* getPersonaForCharacter ignoring the settings map
getPersonaForCharacterIgnoresMap(file, sfile, characterId) ==
    getDefaultPersona(file)

getPersonaForCharacter(file, sfile, characterId) ==
    LET settings == getPersonaSettings(sfile)
        map == settings.characterPersonaMap
    IN  IF characterId \in DOMAIN map /\ map[characterId] # NULL
        THEN getPersonaById(file, map[characterId])
        ELSE getDefaultPersona(file)

\* setPersonaForCharacter leaving the mapping in place when given null
setPersonaForCharacterKeepsOnNull(sfile, characterId, personaId) ==
    LET settings == getPersonaSettings(sfile)
    IN  IF personaId # NULL
        THEN [settings EXCEPT !.characterPersonaMap = setKey(@, characterId, personaId)]
        ELSE settings

\* the settings record setPersonaForCharacter saves
setPersonaForCharacter(sfile, characterId, personaId) ==
    LET settings == getPersonaSettings(sfile)
    IN  IF personaId # NULL
        THEN [settings EXCEPT !.characterPersonaMap = setKey(@, characterId, personaId)]
        ELSE [settings EXCEPT !.characterPersonaMap = deleteKey(@, characterId)]

\* initializeDefaultPersona: the array it leaves, the settings it leaves and
\* the entity it returns; id is the id createDefaultPersona generates
initializeDefaultPersonaListUnguarded(file, id, username) ==
    savePersona(file, createDefaultPersona(id, username))

initializeDefaultPersonaList(file, id, username) ==
    LET personas == getAllPersonas(file)
    IN  IF Len(personas) = 0
        THEN savePersona(file, createDefaultPersona(id, username))
        ELSE file

initializeDefaultPersonaSettings(file, sfile, id) ==
    LET personas == getAllPersonas(file)
    IN  IF Len(personas) = 0
        THEN savePersonaSettings(
                [getPersonaSettings(sfile) EXCEPT !.defaultPersonaId = id])
        ELSE sfile

initializeDefaultPersonaResult(file, id, username) ==
    LET personas == getAllPersonas(file)
        i == findDefaultIndex(personas)
    IN  IF Len(personas) = 0 THEN createDefaultPersona(id, username)
        ELSE IF i > 0 THEN personas[i]
        ELSE personas[1]

\* createNewPersona: the entity it saves and returns
createNewPersona(id, name) == [createEmptyPersona(id) EXCEPT !.name = name]

(* ---------------------------------------------------------------------- *)
(* Personal model (personal-model.ts)                                      *)
(* ---------------------------------------------------------------------- *)
\* A Personal is a Persona with one more payload field, personality.
createEmptyPersonal(id) ==
    [id |-> id, name |-> "", personality |-> "", isDefault |-> FALSE]

createDefaultPersonal(id, username) ==
    [id |-> id, name |-> (IF username # "" THEN username ELSE "User"),
     personality |-> "", isDefault |-> TRUE]

(* ---------------------------------------------------------------------- *)
(* Personal operations                                                     *)
(* ---------------------------------------------------------------------- *)
getAllPersonals(file) == readData(file)

getPersonalById(file, id) ==
    LET personals == getAllPersonals(file)
        i == findIndex(personals, id)
    IN  IF i > 0 THEN Some(personals[i]) ELSE None

getDefaultPersonal(file) ==
    LET personals == getAllPersonals(file)
        i == findDefaultIndex(personals)
    IN  IF i > 0 THEN Some(personals[i])
        ELSE IF Len(personals) > 0 THEN Some(personals[1])
        ELSE None

\* the array savePersonal writes
savePersonal(file, personal) ==
    LET personals == getAllPersonals(file)
        index == findIndex(personals, personal.id)
        upserted == IF index > 0
                    THEN [personals EXCEPT ![index] = personal]
                    ELSE Append(personals, personal)
    IN  IF personal.isDefault
        THEN [i \in 1..Len(upserted) |->
                IF upserted[i].id # personal.id
                THEN [upserted[i] EXCEPT !.isDefault = FALSE]
                ELSE upserted[i]]
        ELSE upserted

getPersonalSettings(sfile) ==
    LET settings == readData(sfile)
    IN  IF Len(settings) = 0
        THEN [defaultPersonalId |-> NULL, characterPersonalMap |-> EmptyMap]
        ELSE settings[1]

savePersonalSettings(settings) == writeData(<<settings>>)

deletePersonalFilteredKeepsFlags(file, id) ==
    LET personals == getAllPersonals(file)
    IN  SelectSeq(personals, LAMBDA p : p.id # id)

\* the array deletePersonal writes
deletePersonalFiltered(file, id) ==
    LET personals == getAllPersonals(file)
        filtered == SelectSeq(personals, LAMBDA p : p.id # id)
    IN  IF Len(filtered) > 0 /\ ~(\E i \in 1..Len(filtered) : filtered[i].isDefault)
        THEN [filtered EXCEPT ![1].isDefault = TRUE]
        ELSE filtered

\* the settings record deletePersonal saves
deletePersonalSettings(sfile, filtered, id) ==
    LET settings == getPersonalSettings(sfile)
        newDefault == IF settings.defaultPersonalId = id
                      THEN (IF Len(filtered) > 0 THEN filtered[1].id ELSE NULL)
                      ELSE settings.defaultPersonalId
        map == settings.characterPersonalMap
        kept == {c \in DOMAIN map : map[c] # id}
    IN  [defaultPersonalId |-> newDefault,
         characterPersonalMap |-> [c \in kept |-> map[c]]]

\* the array setDefaultPersonal writes
setDefaultPersonalList(file, id) ==
    LET personals == getAllPersonals(file)
    IN  [i \in 1..Len(personals) |->
            [personals[i] EXCEPT !.isDefault = (personals[i].id = id)]]

\* the settings record setDefaultPersonal saves
setDefaultPersonalSettings(sfile, id) ==
    [getPersonalSettings(sfile) EXCEPT !.defaultPersonalId = id]

getPersonalForCharacter(file, sfile, characterId) ==
    LET settings == getPersonalSettings(sfile)
        map == settings.characterPersonalMap
    IN  IF characterId \in DOMAIN map /\ map[characterId] # NULL
        THEN getPersonalById(file, map[characterId])
        ELSE getDefaultPersonal(file)

\* the settings record setPersonalForCharacter saves
setPersonalForCharacter(sfile, characterId, personalId) ==
    LET settings == getPersonalSettings(sfile)
    IN  IF personalId # NULL
        THEN [settings EXCEPT !.characterPersonalMap = setKey(@, characterId, personalId)]
        ELSE [settings EXCEPT !.characterPersonalMap = deleteKey(@, characterId)]

\* initializeDefaultPersonal: the array it leaves, the settings it leaves and
\* the entity it returns; id is the id createDefaultPersonal generates
initializeDefaultPersonalList(file, id, username) ==
    LET personals == getAllPersonals(file)
    IN  IF Len(personals) = 0
        THEN savePersonal(file, createDefaultPersonal(id, username))
        ELSE file

initializeDefaultPersonalSettings(file, sfile, id) ==
    LET personals == getAllPersonals(file)
    IN  IF Len(personals) = 0
        THEN savePersonalSettings(
                [getPersonalSettings(sfile) EXCEPT !.defaultPersonalId = id])
        ELSE sfile

initializeDefaultPersonalResult(file, id, username) ==
    LET personals == getAllPersonals(file)
        i == findDefaultIndex(personals)
    IN  IF Len(personals) = 0 THEN createDefaultPersonal(id, username)
        ELSE IF i > 0 THEN personals[i]
        ELSE personals[1]

\* createNewPersonal: the entity it saves and returns
createNewPersonal(id, name) == [createEmptyPersonal(id) EXCEPT !.name = name]

(* ---------------------------------------------------------------------- *)
(* Message font store                                                      *)
(* ---------------------------------------------------------------------- *)
\* A font name is a string, modelled as the sequence of its characters.
Str_OS == <<"O", " ", "S">>
Str_O_S == <<"O", " ", " ", "S">>
Str_L == <<"L">>
Str_pad_L == <<" ", "L", " ">>
Str_blank == <<" ">>

\* values a font slot of the settings can be given
FontNames == {<<>>, Str_OS}
\* names typed into the custom font field
CustomInputs == {Str_blank, Str_pad_L, Str_OS}
\* names loadGoogleFont can be called with
LoadInputs == FontNames \cup CustomInputs \cup {Str_L, Str_O_S}

FontKeys == {"normalFont", "dialogueFont", "italicFont", "codeFont"}

DEFAULT_FONT_SETTINGS ==
    [normalFont |-> <<>>, normalFontSize |-> 16,
     dialogueFont |-> <<>>, dialogueFontSize |-> 16,
     italicFont |-> <<>>, italicFontSize |-> 16,
     codeFont |-> <<>>, codeFontSize |-> 14]

RECURSIVE dropLeadingSpaces(_)
dropLeadingSpaces(s) ==
    IF s # <<>> /\ Head(s) = " " THEN dropLeadingSpaces(Tail(s)) ELSE s

RECURSIVE dropTrailingSpaces(_)
dropTrailingSpaces(s) ==
    IF s # <<>> /\ s[Len(s)] = " "
    THEN dropTrailingSpaces(SubSeq(s, 1, Len(s) - 1))
    ELSE s

\* String.prototype.trim
trim(s) == dropTrailingSpaces(dropLeadingSpaces(s))

\* fontName.replace(/\s+/g, "+"): every run of white space becomes one "+"
RECURSIVE formatName(_)
formatName(s) ==
    IF s = <<>> THEN <<>>
    ELSE IF Head(s) = " "
         THEN <<"+">> \o formatName(dropLeadingSpaces(s))
         ELSE <<Head(s)>> \o formatName(Tail(s))

\* link.id
linkId(fontName) == <<"google-font-">> \o formatName(fontName)

\* document.getElementById(id) finds an element
getElementById(head, id) == \E i \in 1..Len(head) : head[i].id = id

\* loadGoogleFont in the browser, on the loaded-fonts set and the links of
\* document.head
loadGoogleFontEveryCall(st, fontName) ==
    IF fontName = <<>> THEN st
    ELSE [st EXCEPT
            !.head = Append(st.head, [id |-> linkId(fontName),
                                      href |-> formatName(fontName)]),
            !.loadedFonts = st.loadedFonts \cup {fontName}]

loadGoogleFont(st, fontName) ==
    IF fontName = <<>> THEN st
    ELSE IF fontName \in st.loadedFonts THEN st
    ELSE [st EXCEPT
            !.head = IF ~getElementById(st.head, linkId(fontName))
                     THEN Append(st.head, [id |-> linkId(fontName),
                                           href |-> formatName(fontName)])
                     ELSE st.head,
            !.loadedFonts = st.loadedFonts \cup {fontName}]

loadSlotAlways(st, settings, key) ==
    IF key \in DOMAIN settings /\ settings[key] # <<>>
    THEN loadGoogleFont(st, settings[key])
    ELSE st

\* the loads updateFontSettings makes for one slot
loadSlot(st, settings, key) ==
    IF key \in DOMAIN settings /\ settings[key] # <<>>
       /\ settings[key] # st.fontSettings[key]
    THEN loadGoogleFont(st, settings[key])
    ELSE st

\* { ...fontSettings, ...settings }
mergeSettings(fontSettings, settings) ==
    [k \in DOMAIN fontSettings |->
        IF k \in DOMAIN settings THEN settings[k] ELSE fontSettings[k]]

updateFontSettings(st, settings) ==
    LET s1 == loadSlot(st, settings, "normalFont")
        s2 == loadSlot(s1, settings, "dialogueFont")
        s3 == loadSlot(s2, settings, "italicFont")
        s4 == loadSlot(s3, settings, "codeFont")
    IN  [s4 EXCEPT !.fontSettings = mergeSettings(st.fontSettings, settings)]

resetFontSettings(st) == [st EXCEPT !.fontSettings = DEFAULT_FONT_SETTINGS]

includes(seq, x) == \E i \in 1..Len(seq) : seq[i] = x

addCustomFontUntrimmed(st, fontName) ==
    IF fontName # <<>> /\ ~includes(st.customFonts, fontName)
    THEN loadGoogleFont(
            [st EXCEPT !.customFonts = Append(st.customFonts, fontName)],
            fontName)
    ELSE st

addCustomFont(st, fontName) ==
    LET trimmedName == trim(fontName)
    IN  IF trimmedName # <<>> /\ ~includes(st.customFonts, trimmedName)
        THEN loadGoogleFont(
                [st EXCEPT !.customFonts = Append(st.customFonts, trimmedName)],
                trimmedName)
        ELSE st

removeCustomFont(st, fontName) ==
    LET keep(f) == f # fontName
    IN  [st EXCEPT !.customFonts = SelectSeq(st.customFonts, keep)]

\* the store as created, in a document with no font link
FontStoreInit ==
    [fontSettings |-> DEFAULT_FONT_SETTINGS,
     customFonts |-> <<>>,
     loadedFonts |-> {},
     head |-> <<>>]

(* ---------------------------------------------------------------------- *)
(* Dialogue statistics plugin                                              *)
(* ---------------------------------------------------------------------- *)
\* most messages a run counts, and the largest total a run accumulates
MaxMessages == 2
MaxTotal == 8

\* total_tokens values a token usage object carries
TokenValues == {0, 3}
\* contents of a response
Contents == {<<>>, <<"h", "e", "l", "l", "o">>}

ZeroStats ==
    [startTime |-> NULL, messageCount |-> 0, totalTokens |-> 0,
     totalCharacters |-> 0]

\* the module state after the module is evaluated
PluginInit ==
    [pluginContext |-> NULL,
     isEnabled |-> FALSE,
     messageStats |-> ZeroStats,
     latestTokenUsage |-> None,
     lastTokenUsage |-> None]

\* Math.ceil(n / 4)
ceil4(n) == (n + 3) \div 4

\* the "llm-token-usage" listener
onTokenUsage(p, tokenUsage) == [p EXCEPT !.latestTokenUsage = Some(tokenUsage)]

onLoad(p) == [p EXCEPT !.pluginContext = "context"]

onEnable(p) == [p EXCEPT !.isEnabled = TRUE]

onDisableKeepsStats(p) ==
    [p EXCEPT !.isEnabled = FALSE]

onDisable(p) ==
    [p EXCEPT !.isEnabled = FALSE, !.messageStats = ZeroStats]

onMessageUnguarded(p) ==
    [p EXCEPT !.messageStats.startTime = "now",
              !.messageStats.messageCount = @ + 1]

onMessage(p) ==
    IF ~p.isEnabled THEN p
    ELSE [p EXCEPT !.messageStats.startTime = "now",
                   !.messageStats.messageCount = @ + 1]

onResponseKeepsUsage(p, message, contextTokenUsage) ==
    IF ~p.isEnabled THEN p
    ELSE
    LET content == IF message.content # None THEN message.content[1] ELSE <<>>
        totalCharCount == Len(content)
        add(q, n) == [q EXCEPT !.messageStats.totalTokens = @ + n]
        counted ==
            IF p.latestTokenUsage # None
            THEN add(p, p.latestTokenUsage[1])
            ELSE IF p.lastTokenUsage # None
            THEN [add(p, p.lastTokenUsage[1]) EXCEPT !.lastTokenUsage = None]
            ELSE IF message.tokenUsage # None
            THEN add(p, message.tokenUsage[1])
            ELSE IF contextTokenUsage # None
            THEN add(p, contextTokenUsage[1])
            ELSE add(p, ceil4(totalCharCount))
    IN  [counted EXCEPT !.messageStats.totalCharacters = @ + totalCharCount]

\* message: [content: an option, None when the message has no content,
\* tokenUsage: an option];
\* contextTokenUsage: context.tokenUsage, None when context or the field is
\* missing
onResponse(p, message, contextTokenUsage) ==
    IF ~p.isEnabled THEN p
    ELSE
    LET content == IF message.content # None THEN message.content[1] ELSE <<>>
        totalCharCount == Len(content)
        add(q, n) == [q EXCEPT !.messageStats.totalTokens = @ + n]
        counted ==
            IF p.latestTokenUsage # None
            THEN [add(p, p.latestTokenUsage[1]) EXCEPT !.latestTokenUsage = None]
            ELSE IF p.lastTokenUsage # None
            THEN [add(p, p.lastTokenUsage[1]) EXCEPT !.lastTokenUsage = None]
            ELSE IF message.tokenUsage # None
            THEN add(p, message.tokenUsage[1])
            ELSE IF contextTokenUsage # None
            THEN add(p, contextTokenUsage[1])
            ELSE add(p, ceil4(totalCharCount))
    IN  [counted EXCEPT !.messageStats.totalCharacters = @ + totalCharCount]

\* enabled: settings.enabled, None when undefined
onSettingsChange(p, enabled) ==
    IF enabled # None
    THEN IF enabled[1] /\ ~p.isEnabled THEN onEnable(p)
         ELSE IF ~enabled[1] /\ p.isEnabled THEN onDisable(p)
         ELSE p
    ELSE p

onUnload(p) ==
    [(IF p.isEnabled THEN onDisable(p) ELSE p) EXCEPT !.pluginContext = NULL]

(* ---------------------------------------------------------------------- *)
(* PersonaEditor                                                          *)
(* ---------------------------------------------------------------------- *)
\* component state of PersonaEditor as mounted
PersonaEditorInit ==
    [isOpen |-> FALSE, personas |-> <<>>, selectedPersona |-> None,
     isEditing |-> FALSE, isCreating |-> FALSE, isLoading |-> FALSE]

\* loadPersonas of the render ed, when getAllPersonas returns data or throws
PersonaEditor_loadPersonas(ed, data, loadThrows) ==
    IF loadThrows THEN [ed EXCEPT !.isLoading = FALSE]
    ELSE [ed EXCEPT
            !.personas = data,
            !.selectedPersona =
                IF Len(data) > 0 /\ ed.selectedPersona = None
                THEN IF findDefaultIndex(data) > 0
                     THEN Some(data[findDefaultIndex(data)])
                     ELSE Some(data[1])
                ELSE @,
            !.isLoading = FALSE]

PersonaEditor_handleSelectPersona(ed, persona) ==
    [ed EXCEPT !.selectedPersona = Some(persona), !.isEditing = FALSE]

PersonaEditor_handleStartEdit(ed) ==
    IF ed.selectedPersona # None THEN [ed EXCEPT !.isEditing = TRUE] ELSE ed

\* the object handleSaveEdit saves
PersonaEditor_updated(ed, name) == [ed.selectedPersona[1] EXCEPT !.name = name]

\* The four handlers below give the component state a handler leaves: data
\* is what getAllPersonas returns after the store operation, opThrows tells
\* that the store operation threw, loadThrows that getAllPersonas did.
PersonaEditor_handleSaveEditLeavesEditing(ed, data, updated, opThrows, loadThrows) ==
    IF opThrows THEN [ed EXCEPT !.isEditing = FALSE, !.isLoading = FALSE]
    ELSE [PersonaEditor_loadPersonas(ed, data, loadThrows) EXCEPT
            !.selectedPersona = Some(updated),
            !.isEditing = FALSE,
            !.isLoading = FALSE]

PersonaEditor_handleSaveEdit(ed, data, updated, opThrows, loadThrows) ==
    IF opThrows THEN [ed EXCEPT !.isLoading = FALSE]
    ELSE [PersonaEditor_loadPersonas(ed, data, loadThrows) EXCEPT
            !.selectedPersona = Some(updated),
            !.isEditing = FALSE,
            !.isLoading = FALSE]

PersonaEditor_handleCreateNew(ed, data, newPersona, opThrows, loadThrows) ==
    IF opThrows THEN [ed EXCEPT !.isLoading = FALSE]
    ELSE [PersonaEditor_loadPersonas(ed, data, loadThrows) EXCEPT
            !.selectedPersona = Some(newPersona),
            !.isCreating = FALSE,
            !.isLoading = FALSE]

PersonaEditor_handleDelete(ed, data, opThrows, loadThrows) ==
    IF opThrows THEN [ed EXCEPT !.isLoading = FALSE]
    ELSE [PersonaEditor_loadPersonas(ed, data, loadThrows) EXCEPT
            !.selectedPersona = None,
            !.isLoading = FALSE]

PersonaEditor_handleSetDefault(ed, data, opThrows, loadThrows) ==
    IF opThrows THEN [ed EXCEPT !.isLoading = FALSE]
    ELSE [PersonaEditor_loadPersonas(ed, data, loadThrows) EXCEPT !.isLoading = FALSE]

(* ---------------------------------------------------------------------- *)
(* PersonalEditor                                                          *)
(* ---------------------------------------------------------------------- *)
\* component state of PersonalEditor as mounted
PersonalEditorInit ==
    [isOpen |-> FALSE, personals |-> <<>>, selectedPersonal |-> None,
     isEditing |-> FALSE, isCreating |-> FALSE, isLoading |-> FALSE]

\* loadPersonals of the render ed, when getAllPersonals returns data or throws
PersonalEditor_loadPersonals(ed, data, loadThrows) ==
    IF loadThrows THEN [ed EXCEPT !.isLoading = FALSE]
    ELSE [ed EXCEPT
            !.personals = data,
            !.selectedPersonal =
                IF Len(data) > 0 /\ ed.selectedPersonal = None
                THEN IF findDefaultIndex(data) > 0
                     THEN Some(data[findDefaultIndex(data)])
                     ELSE Some(data[1])
                ELSE @,
            !.isLoading = FALSE]

PersonalEditor_handleSelectPersonal(ed, personal) ==
    [ed EXCEPT !.selectedPersonal = Some(personal), !.isEditing = FALSE]

PersonalEditor_handleStartEdit(ed) ==
    IF ed.selectedPersonal # None THEN [ed EXCEPT !.isEditing = TRUE] ELSE ed

\* the object handleSaveEdit saves
PersonalEditor_updated(ed, name) == [ed.selectedPersonal[1] EXCEPT !.name = name]

\* The four handlers below give the component state a handler leaves: data
\* is what getAllPersonals returns after the store operation, opThrows tells
\* that the store operation threw, loadThrows that getAllPersonals did.
PersonalEditor_handleSaveEdit(ed, data, updated, opThrows, loadThrows) ==
    IF opThrows THEN [ed EXCEPT !.isLoading = FALSE]
    ELSE [PersonalEditor_loadPersonals(ed, data, loadThrows) EXCEPT
            !.selectedPersonal = Some(updated),
            !.isEditing = FALSE,
            !.isLoading = FALSE]

PersonalEditor_handleCreateNew(ed, data, newPersonal, opThrows, loadThrows) ==
    IF opThrows THEN [ed EXCEPT !.isLoading = FALSE]
    ELSE [PersonalEditor_loadPersonals(ed, data, loadThrows) EXCEPT
            !.selectedPersonal = Some(newPersonal),
            !.isCreating = FALSE,
            !.isLoading = FALSE]

PersonalEditor_handleDelete(ed, data, opThrows, loadThrows) ==
    IF opThrows THEN [ed EXCEPT !.isLoading = FALSE]
    ELSE [PersonalEditor_loadPersonals(ed, data, loadThrows) EXCEPT
            !.selectedPersonal = None,
            !.isLoading = FALSE]

PersonalEditor_handleSetDefault(ed, data, opThrows, loadThrows) ==
    IF opThrows THEN [ed EXCEPT !.isLoading = FALSE]
    ELSE [PersonalEditor_loadPersonals(ed, data, loadThrows) EXCEPT !.isLoading = FALSE]

(* ---------------------------------------------------------------------- *)
(* Two save calls in progress at once                                      *)
(* ---------------------------------------------------------------------- *)
\* the two calls
SaveCalls == {"s1", "s2"}

\* calls: per call its position (pc: "idle", then "read" once its getAll
\* has resolved, then "done" once its writeData has), the entity it was
\* given (arg), the array its getAll returned (personas) and how many of
\* the calls had written when it read (saw); order: the calls that have
\* written, in the order of their writes
NoSaves ==
    [calls |-> [c \in SaveCalls |->
                  [pc |-> "idle", arg |-> None, personas |-> <<>>, saw |-> 0]],
     order |-> <<>>]

\* the array the write step of savePersona leaves in the file: the one
\* built from the array the call read, whatever is stored by then
savePersonaWritesStored(personas, stored, persona) ==
    writeData(savePersona(stored, persona))

savePersonaWrites(personas, stored, persona) ==
    writeData(savePersona(personas, persona))

savePersonalWrites(personals, stored, personal) ==
    writeData(savePersonal(personals, personal))

(* ---------------------------------------------------------------------- *)
(* Recent chats: RecentChatsList and SidebarRecentChats                    *)
(* ---------------------------------------------------------------------- *)
\* most fetches the effects of RecentChatsList have in flight at once
MaxFetches == 2

Characters == {"c1", "c2"}

\* the leaf branches of each character's dialogue tree
Nodes == [c1 |-> <<"c1n1", "c1n2">>, c2 |-> <<"c2n1", "c2n2">>]
NodeIds == {Nodes[c][i] : c \in Characters, i \in 1..2}

\* LocalCharacterDialogueOperations.getRecentBranches(characterId, limit)
\* on the trees: tree[c] is the current branch of character c
getRecentBranches(tree, characterId) ==
    [i \in 1..Len(Nodes[characterId]) |->
        [nodeId |-> Nodes[characterId][i],
         isCurrent |-> (tree[characterId] = Nodes[characterId][i])]]

\* the trees after switchDialogueBranch({characterId, nodeId}) answered
\* "success", "failure" (success false) or "throws"
switchDialogueBranch(tree, characterId, nodeId, outcome) ==
    IF outcome = "success" THEN [tree EXCEPT ![characterId] = nodeId] ELSE tree

SwitchOutcomes == {"success", "failure", "throws"}

\* seq without its i-th element
RemoveAt(seq, i) == SubSeq(seq, 1, i - 1) \o SubSeq(seq, i + 1, Len(seq))

\* A component as first rendered (before its effects run), next to trees
\* whose current branches are the first ones.  fetches: the characters
\* whose effect-started getRecentBranches call has not resolved; switches:
\* the handleBranchClick calls past their guard that have not finished,
\* with pc "switching" until switchDialogueBranch answers and "refreshing"
\* while the fetchBranches of a successful switch is awaited
NoChats ==
    [characterId |-> "", hasCallback |-> FALSE,
     branches |-> <<>>, isLoading |-> TRUE, switchingBranchId |-> NULL,
     fetches |-> <<>>, switches |-> <<>>,
     tree |-> [c \in Characters |-> Nodes[c][1]]]

\* fetchBranches up to its await (st.characterId is the characterId of the
\* callback's render)
RecentChatsList_fetchBranchesStarts(st) ==
    IF st.characterId = ""
    THEN [st EXCEPT !.branches = <<>>, !.isLoading = FALSE]
    ELSE [st EXCEPT !.isLoading = TRUE,
                    !.fetches = Append(@, st.characterId)]

\* fetchBranches from its await on, for the call made for characterId
RecentChatsList_fetchBranchesResolves(st, characterId, threw) ==
    [st EXCEPT !.branches = IF threw THEN <<>>
                            ELSE getRecentBranches(st.tree, characterId),
               !.isLoading = FALSE]

RecentChatsList_handleBranchClickUnguarded(st, nodeId) ==
    [st EXCEPT !.switchingBranchId = nodeId,
               !.switches = Append(@, [characterId |-> st.characterId,
                                       nodeId |-> nodeId, pc |-> "switching"])]

\* handleBranchClick up to its await
RecentChatsList_handleBranchClick(st, nodeId) ==
    IF st.switchingBranchId # NULL \/ st.characterId = "" THEN st
    ELSE [st EXCEPT !.switchingBranchId = nodeId,
                    !.switches = Append(@, [characterId |-> st.characterId,
                                            nodeId |-> nodeId, pc |-> "switching"])]

\* onClick of a branch row
RecentChatsList_onClick(st, branch) ==
    IF ~branch.isCurrent THEN RecentChatsList_handleBranchClick(st, branch.nodeId)
    ELSE st

\* handleBranchClick of switch i when switchDialogueBranch has answered:
\* on success it starts fetchBranches and awaits it, else it finishes
RecentChatsList_switchAnswered(st, i, outcome) ==
    LET sw == st.switches[i]
    IN  IF outcome = "success"
        THEN [st EXCEPT
                !.tree = switchDialogueBranch(@, sw.characterId, sw.nodeId, outcome),
                !.isLoading = TRUE,
                !.switches[i].pc = "refreshing"]
        ELSE [st EXCEPT !.switchingBranchId = NULL,
                        !.switches = RemoveAt(@, i)]

\* handleBranchClick of switch i when its fetchBranches has completed
RecentChatsList_switchRefreshed(st, i, threw) ==
    [RecentChatsList_fetchBranchesResolves(st, st.switches[i].characterId, threw)
        EXCEPT !.switchingBranchId = NULL,
               !.switches = RemoveAt(@, i)]

RecentChatsList_callsOnBranchSwitchAlways(sw, hasCallback) ==
    hasCallback

\* whether handleBranchClick calls onBranchSwitch in the step that finishes
\* switch sw
RecentChatsList_callsOnBranchSwitch(sw, hasCallback) ==
    sw.pc = "refreshing" /\ hasCallback

\* SidebarRecentChats.handleBranchClick up to its await
SidebarRecentChats_handleBranchClick(st, characterId, nodeId) ==
    IF st.switchingBranchId # NULL THEN st
    ELSE [st EXCEPT !.switchingBranchId = nodeId,
                    !.switches = Append(@, [characterId |-> characterId,
                                            nodeId |-> nodeId, pc |-> "switching"])]

\* SidebarRecentChats.handleBranchClick when switchDialogueBranch has answered
SidebarRecentChats_switchAnswered(st, i, outcome) ==
    LET sw == st.switches[i]
    IN  [st EXCEPT
            !.tree = switchDialogueBranch(@, sw.characterId, sw.nodeId, outcome),
            !.switchingBranchId = NULL,
            !.switches = RemoveAt(@, i)]

(* ---------------------------------------------------------------------- *)
(* Calls                                                                   *)
(* ---------------------------------------------------------------------- *)
\* Record of the last completed call: its name, the id and character id it
\* was given, the entity it was given (arg; for createNew the name it was
\* given) and the value it returned (ret),
\* and three facts about the store when the call started: whether an entity
\* with that id was stored, whether that entity was flagged default, and
\* whether the settings map referred to it (for setXForCharacter: whether
\* the character had a mapping).
Call(op, id, char, arg, ret, existed, wasDefault, wasMapped) ==
    [op |-> op, id |-> id, char |-> char, arg |-> arg, ret |-> ret,
     existed |-> existed, wasDefault |-> wasDefault, wasMapped |-> wasMapped]

Existed(file, id) == \E i \in 1..Len(file) : file[i].id = id
WasDefault(file, id) == \E i \in 1..Len(file) : file[i].id = id /\ file[i].isDefault
WasMapped(map, id) == \E c \in DOMAIN map : map[c] = id

Init ==
    /\ personaFile = <<>>
    /\ personaSettingsFile = <<>>
    /\ personalFile = <<>>
    /\ personalSettingsFile = <<>>
    /\ kind \in {"Persona", "Personal"}
    /\ last = Call("none", NULL, NULL, None, None, FALSE, FALSE, FALSE)
    /\ fonts = FontStoreInit
    /\ plugin = PluginInit
    /\ editor = PersonaEditorInit
    /\ saves = NoSaves
    /\ chats = NoChats

SavePersona ==
    /\ kind = "Persona"
    /\ \E id \in Ids, name \in Names, isDefault \in BOOLEAN :
        LET persona == [id |-> id, name |-> name, isDefault |-> isDefault]
        IN  /\ personaFile' = writeData(savePersona(personaFile, persona))
            /\ last' = Call("save", id, NULL, Some(persona), None,
                            Existed(personaFile, id), WasDefault(personaFile, id),
                            WasMapped(getPersonaSettings(personaSettingsFile).characterPersonaMap, id))
    /\ UNCHANGED <<personaSettingsFile, personalFile, personalSettingsFile, kind>>
    /\ UNCHANGED auxVars

DeletePersona ==
    /\ kind = "Persona"
    /\ \E id \in Ids :
        LET filtered == deletePersonaFiltered(personaFile, id)
        IN  /\ personaFile' = writeData(filtered)
            /\ personaSettingsFile' =
                  savePersonaSettings(deletePersonaSettings(personaSettingsFile, filtered, id))
            /\ last' = Call("delete", id, NULL, None, None,
                            Existed(personaFile, id), WasDefault(personaFile, id),
                            WasMapped(getPersonaSettings(personaSettingsFile).characterPersonaMap, id))
    /\ UNCHANGED <<personalFile, personalSettingsFile, kind>>
    /\ UNCHANGED auxVars

SetDefaultPersona ==
    /\ kind = "Persona"
    /\ \E id \in Ids :
        /\ personaFile' = writeData(setDefaultPersonaList(personaFile, id))
        /\ personaSettingsFile' =
              savePersonaSettings(setDefaultPersonaSettings(personaSettingsFile, id))
        /\ last' = Call("setDefault", id, NULL, None, None,
                        Existed(personaFile, id), WasDefault(personaFile, id),
                        WasMapped(getPersonaSettings(personaSettingsFile).characterPersonaMap, id))
    /\ UNCHANGED <<personalFile, personalSettingsFile, kind>>
    /\ UNCHANGED auxVars

GetDefaultPersona ==
    /\ kind = "Persona"
    /\ last' = Call("getDefault", NULL, NULL, None, getDefaultPersona(personaFile),
                    FALSE, FALSE, FALSE)
    /\ UNCHANGED <<storeVars, kind>>
    /\ UNCHANGED auxVars

GetPersonaForCharacter ==
    /\ kind = "Persona"
    /\ \E c \in Chars :
        last' = Call("getForCharacter", NULL, c, None,
                     getPersonaForCharacter(personaFile, personaSettingsFile, c),
                     FALSE, FALSE,
                     c \in DOMAIN getPersonaSettings(personaSettingsFile).characterPersonaMap)
    /\ UNCHANGED <<storeVars, kind>>
    /\ UNCHANGED auxVars

SetPersonaForCharacter ==
    /\ kind = "Persona"
    /\ \E c \in Chars, id \in Ids \cup {NULL} :
        /\ personaSettingsFile' =
              savePersonaSettings(setPersonaForCharacter(personaSettingsFile, c, id))
        /\ last' = Call("setForCharacter", id, c, None, None,
                        Existed(personaFile, id), WasDefault(personaFile, id),
                        c \in DOMAIN getPersonaSettings(personaSettingsFile).characterPersonaMap)
    /\ UNCHANGED <<personaFile, personalFile, personalSettingsFile, kind>>
    /\ UNCHANGED auxVars

\* id is the id createDefaultPersona generates from Date.now()
InitializeDefaultPersona ==
    /\ kind = "Persona"
    /\ \E id \in Ids, username \in Names :
        /\ personaFile' = initializeDefaultPersonaList(personaFile, id, username)
        /\ personaSettingsFile' =
              initializeDefaultPersonaSettings(personaFile, personaSettingsFile, id)
        /\ last' = Call("initializeDefault", NULL, NULL, None,
                        Some(initializeDefaultPersonaResult(personaFile, id, username)),
                        Len(personaFile) > 0, FALSE, FALSE)
    /\ UNCHANGED <<personalFile, personalSettingsFile, kind>>
    /\ UNCHANGED auxVars

\* id is the id createEmptyPersona generates from Date.now() and
\* Math.random(): one no stored entity has
CreateNewPersona ==
    /\ kind = "Persona"
    /\ \E id \in Ids, name \in Names :
        /\ ~Existed(personaFile, id)
        /\ personaFile' = writeData(savePersona(personaFile, createNewPersona(id, name)))
        /\ last' = Call("createNew", id, NULL, Some(name), Some(createNewPersona(id, name)),
                        FALSE, FALSE,
                        WasMapped(getPersonaSettings(personaSettingsFile).characterPersonaMap, id))
    /\ UNCHANGED <<personaSettingsFile, personalFile, personalSettingsFile, kind>>
    /\ UNCHANGED auxVars

GetPersonaSettings ==
    /\ kind = "Persona"
    /\ last' = Call("getSettings", NULL, NULL, None,
                    Some(getPersonaSettings(personaSettingsFile)),
                    FALSE, FALSE, FALSE)
    /\ UNCHANGED <<personaFile, personaSettingsFile, personalFile, personalSettingsFile, kind>>
    /\ UNCHANGED auxVars

SavePersonal ==
    /\ kind = "Personal"
    /\ \E id \in Ids, name \in Names, isDefault \in BOOLEAN :
        LET personal == [id |-> id, name |-> name, personality |-> "",
                         isDefault |-> isDefault]
        IN  /\ personalFile' = writeData(savePersonal(personalFile, personal))
            /\ last' = Call("save", id, NULL, Some(personal), None,
                            Existed(personalFile, id), WasDefault(personalFile, id),
                            WasMapped(getPersonalSettings(personalSettingsFile).characterPersonalMap, id))
    /\ UNCHANGED <<personaFile, personaSettingsFile, personalSettingsFile, kind>>
    /\ UNCHANGED auxVars

DeletePersonal ==
    /\ kind = "Personal"
    /\ \E id \in Ids :
        LET filtered == deletePersonalFiltered(personalFile, id)
        IN  /\ personalFile' = writeData(filtered)
            /\ personalSettingsFile' =
                  savePersonalSettings(deletePersonalSettings(personalSettingsFile, filtered, id))
            /\ last' = Call("delete", id, NULL, None, None,
                            Existed(personalFile, id), WasDefault(personalFile, id),
                            WasMapped(getPersonalSettings(personalSettingsFile).characterPersonalMap, id))
    /\ UNCHANGED <<personaFile, personaSettingsFile, kind>>
    /\ UNCHANGED auxVars

SetDefaultPersonal ==
    /\ kind = "Personal"
    /\ \E id \in Ids :
        /\ personalFile' = writeData(setDefaultPersonalList(personalFile, id))
        /\ personalSettingsFile' =
              savePersonalSettings(setDefaultPersonalSettings(personalSettingsFile, id))
        /\ last' = Call("setDefault", id, NULL, None, None,
                        Existed(personalFile, id), WasDefault(personalFile, id),
                        WasMapped(getPersonalSettings(personalSettingsFile).characterPersonalMap, id))
    /\ UNCHANGED <<personaFile, personaSettingsFile, kind>>
    /\ UNCHANGED auxVars

GetDefaultPersonal ==
    /\ kind = "Personal"
    /\ last' = Call("getDefault", NULL, NULL, None, getDefaultPersonal(personalFile),
                    FALSE, FALSE, FALSE)
    /\ UNCHANGED <<storeVars, kind>>
    /\ UNCHANGED auxVars

GetPersonalForCharacter ==
    /\ kind = "Personal"
    /\ \E c \in Chars :
        last' = Call("getForCharacter", NULL, c, None,
                     getPersonalForCharacter(personalFile, personalSettingsFile, c),
                     FALSE, FALSE,
                     c \in DOMAIN getPersonalSettings(personalSettingsFile).characterPersonalMap)
    /\ UNCHANGED <<storeVars, kind>>
    /\ UNCHANGED auxVars

SetPersonalForCharacter ==
    /\ kind = "Personal"
    /\ \E c \in Chars, id \in Ids \cup {NULL} :
        /\ personalSettingsFile' =
              savePersonalSettings(setPersonalForCharacter(personalSettingsFile, c, id))
        /\ last' = Call("setForCharacter", id, c, None, None,
                        Existed(personalFile, id), WasDefault(personalFile, id),
                        c \in DOMAIN getPersonalSettings(personalSettingsFile).characterPersonalMap)
    /\ UNCHANGED <<personaFile, personaSettingsFile, personalFile, kind>>
    /\ UNCHANGED auxVars

\* id is the id createDefaultPersonal generates from Date.now()
InitializeDefaultPersonal ==
    /\ kind = "Personal"
    /\ \E id \in Ids, username \in Names :
        /\ personalFile' = initializeDefaultPersonalList(personalFile, id, username)
        /\ personalSettingsFile' =
              initializeDefaultPersonalSettings(personalFile, personalSettingsFile, id)
        /\ last' = Call("initializeDefault", NULL, NULL, None,
                        Some(initializeDefaultPersonalResult(personalFile, id, username)),
                        Len(personalFile) > 0, FALSE, FALSE)
    /\ UNCHANGED <<personaFile, personaSettingsFile, kind>>
    /\ UNCHANGED auxVars

\* id is the id createEmptyPersonal generates from Date.now() and
\* Math.random(): one no stored entity has
CreateNewPersonal ==
    /\ kind = "Personal"
    /\ \E id \in Ids, name \in Names :
        /\ ~Existed(personalFile, id)
        /\ personalFile' = writeData(savePersonal(personalFile, createNewPersonal(id, name)))
        /\ last' = Call("createNew", id, NULL, Some(name), Some(createNewPersonal(id, name)),
                        FALSE, FALSE,
                        WasMapped(getPersonalSettings(personalSettingsFile).characterPersonalMap, id))
    /\ UNCHANGED <<personaFile, personaSettingsFile, personalSettingsFile, kind>>
    /\ UNCHANGED auxVars

GetPersonalSettings ==
    /\ kind = "Personal"
    /\ last' = Call("getSettings", NULL, NULL, None,
                    Some(getPersonalSettings(personalSettingsFile)),
                    FALSE, FALSE, FALSE)
    /\ UNCHANGED <<personaFile, personaSettingsFile, personalFile, personalSettingsFile, kind>>
    /\ UNCHANGED auxVars

Next ==
    \/ SavePersona
    \/ DeletePersona
    \/ SetDefaultPersona
    \/ GetDefaultPersona
    \/ GetPersonaForCharacter
    \/ SetPersonaForCharacter
    \/ InitializeDefaultPersona
    \/ CreateNewPersona
    \/ GetPersonaSettings
    \/ SavePersonal
    \/ DeletePersonal
    \/ SetDefaultPersonal
    \/ GetDefaultPersonal
    \/ GetPersonalForCharacter
    \/ SetPersonalForCharacter
    \/ InitializeDefaultPersonal
    \/ CreateNewPersonal
    \/ GetPersonalSettings

Spec == Init /\ [][Next]_vars

(* ---------------------------------------------------------------------- *)
(* Views of the kind a run calls                                           *)
(* ---------------------------------------------------------------------- *)
File == IF kind = "Persona" THEN personaFile ELSE personalFile

DefaultId ==
    IF kind = "Persona"
    THEN getPersonaSettings(personaSettingsFile).defaultPersonaId
    ELSE getPersonalSettings(personalSettingsFile).defaultPersonalId

CharMap ==
    IF kind = "Persona"
    THEN getPersonaSettings(personaSettingsFile).characterPersonaMap
    ELSE getPersonalSettings(personalSettingsFile).characterPersonalMap

GetDefault ==
    IF kind = "Persona"
    THEN getDefaultPersona(personaFile)
    ELSE getDefaultPersonal(personalFile)

SettingsFile == IF kind = "Persona" THEN personaSettingsFile ELSE personalSettingsFile

EmptySettings ==
    IF kind = "Persona"
    THEN [defaultPersonaId |-> NULL, characterPersonaMap |-> EmptyMap]
    ELSE [defaultPersonalId |-> NULL, characterPersonalMap |-> EmptyMap]

Defaults(file) == {i \in 1..Len(file) : file[i].isDefault}
DefaultCount(file) == Cardinality(Defaults(file))

(* ---------------------------------------------------------------------- *)
(* Message font store: calls                                               *)
(* ---------------------------------------------------------------------- *)
\* Partial<MessageFontSettings> objects that assign font slots
PartialFontSettings == UNION {[K -> FontNames] : K \in SUBSET FontKeys}

InitFonts ==
    /\ personaFile = <<>>
    /\ personaSettingsFile = <<>>
    /\ personalFile = <<>>
    /\ personalSettingsFile = <<>>
    /\ kind = "Fonts"
    /\ last = Call("none", NULL, NULL, None, None, FALSE, FALSE, FALSE)
    /\ fonts = FontStoreInit
    /\ plugin = PluginInit
    /\ editor = PersonaEditorInit
    /\ saves = NoSaves
    /\ chats = NoChats

LoadGoogleFont ==
    /\ \E fontName \in LoadInputs : fonts' = loadGoogleFont(fonts, fontName)
    /\ UNCHANGED notFonts

UpdateFontSettings ==
    /\ \E settings \in PartialFontSettings :
        fonts' = updateFontSettings(fonts, settings)
    /\ UNCHANGED notFonts

ResetFontSettings ==
    /\ fonts' = resetFontSettings(fonts)
    /\ UNCHANGED notFonts

AddCustomFont ==
    /\ \E fontName \in CustomInputs : fonts' = addCustomFont(fonts, fontName)
    /\ UNCHANGED notFonts

RemoveCustomFont ==
    /\ \E fontName \in LoadInputs : fonts' = removeCustomFont(fonts, fontName)
    /\ UNCHANGED notFonts

NextFonts ==
    \/ LoadGoogleFont
    \/ UpdateFontSettings
    \/ ResetFontSettings
    \/ AddCustomFont
    \/ RemoveCustomFont

SpecFonts == InitFonts /\ [][NextFonts]_vars

\* links of the document that load the family of fontName
LinksOf(fontName) ==
    {i \in 1..Len(fonts.head) : fonts.head[i].id = linkId(fontName)}

(* ---------------------------------------------------------------------- *)
(* Dialogue statistics plugin: hooks and events                            *)
(* ---------------------------------------------------------------------- *)
\* the hook a step ran and the statistics it started from
Hook(op) ==
    [op |-> op, before |-> plugin.messageStats,
     message |-> [content |-> None, tokenUsage |-> None],
     contextTokenUsage |-> None]

\* the record of an onResponse call with its arguments
ResponseHook(message, contextTokenUsage) ==
    [Hook("onResponse") EXCEPT !.message = message,
                               !.contextTokenUsage = contextTokenUsage]

\* message objects onResponse is called with
Messages ==
    [content : {None} \cup {Some(c) : c \in Contents},
     tokenUsage : {None} \cup {Some(n) : n \in TokenValues}]

TokenUsageOptions == {None} \cup {Some(n) : n \in TokenValues}

InitStats ==
    /\ personaFile = <<>>
    /\ personaSettingsFile = <<>>
    /\ personalFile = <<>>
    /\ personalSettingsFile = <<>>
    /\ kind = "Stats"
    /\ last = [op |-> "none", before |-> ZeroStats,
               message |-> [content |-> None, tokenUsage |-> None],
               contextTokenUsage |-> None]
    /\ fonts = FontStoreInit
    /\ plugin = PluginInit
    /\ editor = PersonaEditorInit
    /\ saves = NoSaves
    /\ chats = NoChats

TokenUsageEvent ==
    /\ \E n \in TokenValues : plugin' = onTokenUsage(plugin, n)
    /\ last' = Hook("llm-token-usage")
    /\ UNCHANGED notPlugin

\* the host application leaves a usage object in window.lastTokenUsage
SetWindowLastTokenUsage ==
    /\ \E n \in TokenValues : plugin' = [plugin EXCEPT !.lastTokenUsage = Some(n)]
    /\ last' = Hook("window.lastTokenUsage")
    /\ UNCHANGED notPlugin

OnLoad ==
    /\ plugin' = onLoad(plugin)
    /\ last' = Hook("onLoad")
    /\ UNCHANGED notPlugin

OnEnable ==
    /\ plugin' = onEnable(plugin)
    /\ last' = Hook("onEnable")
    /\ UNCHANGED notPlugin

OnDisable ==
    /\ plugin' = onDisable(plugin)
    /\ last' = Hook("onDisable")
    /\ UNCHANGED notPlugin

OnMessage ==
    /\ onMessage(plugin).messageStats.messageCount <= MaxMessages
    /\ plugin' = onMessage(plugin)
    /\ last' = Hook("onMessage")
    /\ UNCHANGED notPlugin

OnResponse ==
    /\ \E message \in Messages, contextTokenUsage \in TokenUsageOptions :
        LET p == onResponse(plugin, message, contextTokenUsage)
        IN  /\ p.messageStats.totalTokens <= MaxTotal
            /\ p.messageStats.totalCharacters <= MaxTotal
            /\ plugin' = p
            /\ last' = ResponseHook(message, contextTokenUsage)
    /\ UNCHANGED notPlugin

OnSettingsChange ==
    /\ \E enabled \in {None, Some(TRUE), Some(FALSE)} :
        plugin' = onSettingsChange(plugin, enabled)
    /\ last' = Hook("onSettingsChange")
    /\ UNCHANGED notPlugin

OnUnload ==
    /\ plugin' = onUnload(plugin)
    /\ last' = Hook("onUnload")
    /\ UNCHANGED notPlugin

NextStats ==
    \/ TokenUsageEvent
    \/ SetWindowLastTokenUsage
    \/ OnLoad
    \/ OnEnable
    \/ OnDisable
    \/ OnMessage
    \/ OnResponse
    \/ OnSettingsChange
    \/ OnUnload

SpecStats == InitStats /\ [][NextStats]_vars

\* cnt is nowhere below the counters of the statistics old
NotBelow(cnt, old) ==
    /\ cnt.messageCount >= old.messageCount
    /\ cnt.totalTokens >= old.totalTokens
    /\ cnt.totalCharacters >= old.totalCharacters

(* ---------------------------------------------------------------------- *)
(* PersonaEditor and PersonalEditor: user actions                          *)
(* ---------------------------------------------------------------------- *)
\* names typed into the name fields
TypedNames == {" ", " Ann "}

\* String.prototype.trim on the typed names
trimmedName(typed) ==
    CASE typed = " " -> ""
      [] typed = " Ann " -> "Ann"
      [] OTHER -> typed

\* The handler a step ran, how its store operation went, and whether it got
\* past its early returns.  Outcomes: "ok"; "opThrows": the store operation
\* threw before it wrote anything; "opThrowsBetweenWrites": it threw after
\* writing the entity array and before writing the settings; "loadThrows":
\* the store operation succeeded and the getAll of the reload threw.
Handled(op, outcome, ran) == [op |-> op, outcome |-> outcome, ran |-> ran]

OneWriteOutcomes == {"ok", "opThrows", "loadThrows"}
TwoWriteOutcomes == {"ok", "opThrows", "opThrowsBetweenWrites", "loadThrows"}
OpThrew(outcome) == outcome \in {"opThrows", "opThrowsBetweenWrites"}

\* The store as initializeDefault leaves it, and the editor not yet opened
InitEditor ==
    /\ kind \in {"Persona", "Personal"}
    /\ personaFile =
          IF kind = "Persona"
          THEN initializeDefaultPersonaList(<<>>, IdPool[1], "") ELSE <<>>
    /\ personaSettingsFile =
          IF kind = "Persona"
          THEN initializeDefaultPersonaSettings(<<>>, <<>>, IdPool[1]) ELSE <<>>
    /\ personalFile =
          IF kind = "Personal"
          THEN initializeDefaultPersonalList(<<>>, IdPool[1], "") ELSE <<>>
    /\ personalSettingsFile =
          IF kind = "Personal"
          THEN initializeDefaultPersonalSettings(<<>>, <<>>, IdPool[1]) ELSE <<>>
    /\ last = Handled("none", "ok", FALSE)
    /\ fonts = FontStoreInit
    /\ plugin = PluginInit
    /\ editor = IF kind = "Persona" THEN PersonaEditorInit ELSE PersonalEditorInit
    /\ saves = NoSaves
    /\ chats = NoChats

\* useEffect on isOpen
PersonaEditorOpen ==
    /\ kind = "Persona"
    /\ ~editor.isOpen
    /\ \E loadThrows \in BOOLEAN :
        /\ editor' = [PersonaEditor_loadPersonas(editor, getAllPersonas(personaFile), loadThrows)
                        EXCEPT !.isOpen = TRUE]
        /\ last' = Handled("open", IF loadThrows THEN "loadThrows" ELSE "ok", TRUE)
    /\ UNCHANGED <<storeVars, kind, fonts, plugin, saves, chats>>

PersonaEditorClose ==
    /\ kind = "Persona"
    /\ editor.isOpen
    /\ editor' = [editor EXCEPT !.isOpen = FALSE]
    /\ last' = Handled("close", "ok", TRUE)
    /\ UNCHANGED <<storeVars, kind, fonts, plugin, saves, chats>>

PersonaEditorHandleSelectPersona ==
    /\ kind = "Persona"
    /\ editor.isOpen
    /\ \E i \in 1..Len(editor.personas) :
        editor' = PersonaEditor_handleSelectPersona(editor, editor.personas[i])
    /\ last' = Handled("handleSelect", "ok", TRUE)
    /\ UNCHANGED <<storeVars, kind, fonts, plugin, saves, chats>>

PersonaEditorHandleStartEdit ==
    /\ kind = "Persona"
    /\ editor.isOpen
    /\ editor.selectedPersona # None
    /\ ~editor.isEditing
    /\ editor' = PersonaEditor_handleStartEdit(editor)
    /\ last' = Handled("handleStartEdit", "ok", TRUE)
    /\ UNCHANGED <<storeVars, kind, fonts, plugin, saves, chats>>

PersonaEditorCancelEdit ==
    /\ kind = "Persona"
    /\ editor.isOpen
    /\ editor.selectedPersona # None
    /\ editor.isEditing
    /\ editor' = [editor EXCEPT !.isEditing = FALSE]
    /\ last' = Handled("cancelEdit", "ok", TRUE)
    /\ UNCHANGED <<storeVars, kind, fonts, plugin, saves, chats>>

PersonaEditorStartCreate ==
    /\ kind = "Persona"
    /\ editor.isOpen
    /\ ~editor.isCreating
    /\ editor' = [editor EXCEPT !.isCreating = TRUE]
    /\ last' = Handled("startCreate", "ok", TRUE)
    /\ UNCHANGED <<storeVars, kind, fonts, plugin, saves, chats>>

PersonaEditorCancelCreate ==
    /\ kind = "Persona"
    /\ editor.isOpen
    /\ editor.isCreating
    /\ editor' = [editor EXCEPT !.isCreating = FALSE]
    /\ last' = Handled("cancelCreate", "ok", TRUE)
    /\ UNCHANGED <<storeVars, kind, fonts, plugin, saves, chats>>

PersonaEditorHandleSaveEdit ==
    /\ kind = "Persona"
    /\ editor.isOpen
    /\ editor.selectedPersona # None
    /\ editor.isEditing
    /\ \E typed \in TypedNames, outcome \in OneWriteOutcomes :
        LET name == trimmedName(typed)
            updated == PersonaEditor_updated(editor, name)
            written == IF OpThrew(outcome) THEN personaFile
                       ELSE writeData(savePersona(personaFile, updated))
        IN  IF name = ""
            THEN /\ UNCHANGED <<personaFile, editor>>
                 /\ last' = Handled("handleSaveEdit", "ok", FALSE)
            ELSE /\ personaFile' = written
                 /\ editor' = PersonaEditor_handleSaveEdit(
                                 editor, getAllPersonas(written), updated,
                                 OpThrew(outcome), outcome = "loadThrows")
                 /\ last' = Handled("handleSaveEdit", outcome, TRUE)
    /\ UNCHANGED <<personaSettingsFile, personalFile, personalSettingsFile, kind, fonts, plugin, saves, chats>>

\* id is the id createEmptyPersona generates: one no stored entity has
PersonaEditorHandleCreateNew ==
    /\ kind = "Persona"
    /\ editor.isOpen
    /\ editor.isCreating
    /\ \E typed \in TypedNames, outcome \in OneWriteOutcomes, id \in Ids :
        LET name == trimmedName(typed)
            newPersona == createNewPersona(id, name)
            written == IF OpThrew(outcome) THEN personaFile
                       ELSE writeData(savePersona(personaFile, newPersona))
        IN  /\ ~Existed(personaFile, id)
            /\ IF name = ""
               THEN /\ UNCHANGED <<personaFile, editor>>
                    /\ last' = Handled("handleCreateNew", "ok", FALSE)
               ELSE /\ personaFile' = written
                    /\ editor' = PersonaEditor_handleCreateNew(
                                    editor, getAllPersonas(written), newPersona,
                                    OpThrew(outcome), outcome = "loadThrows")
                    /\ last' = Handled("handleCreateNew", outcome, TRUE)
    /\ UNCHANGED <<personaSettingsFile, personalFile, personalSettingsFile, kind, fonts, plugin, saves, chats>>

\* confirmed: what confirm() returns
PersonaEditorHandleDelete ==
    /\ kind = "Persona"
    /\ editor.isOpen
    /\ editor.selectedPersona # None
    /\ ~editor.isEditing
    /\ Len(editor.personas) > 1
    /\ \E confirmed \in BOOLEAN, outcome \in TwoWriteOutcomes :
        LET id == editor.selectedPersona[1].id
            filtered == deletePersonaFiltered(personaFile, id)
            written == IF outcome = "opThrows" THEN personaFile
                       ELSE writeData(filtered)
        IN  IF ~confirmed
            THEN /\ UNCHANGED <<personaFile, personaSettingsFile, editor>>
                 /\ last' = Handled("handleDelete", "ok", FALSE)
            ELSE /\ personaFile' = written
                 /\ personaSettingsFile' =
                       IF OpThrew(outcome) THEN personaSettingsFile
                       ELSE savePersonaSettings(
                               deletePersonaSettings(personaSettingsFile, filtered, id))
                 /\ editor' = PersonaEditor_handleDelete(
                                 editor, getAllPersonas(written),
                                 OpThrew(outcome), outcome = "loadThrows")
                 /\ last' = Handled("handleDelete", outcome, TRUE)
    /\ UNCHANGED <<personalFile, personalSettingsFile, kind, fonts, plugin, saves, chats>>

PersonaEditorHandleSetDefault ==
    /\ kind = "Persona"
    /\ editor.isOpen
    /\ editor.selectedPersona # None
    /\ ~editor.isEditing
    /\ ~editor.selectedPersona[1].isDefault
    /\ \E outcome \in TwoWriteOutcomes :
        LET id == editor.selectedPersona[1].id
            written == IF outcome = "opThrows" THEN personaFile
                       ELSE writeData(setDefaultPersonaList(personaFile, id))
        IN  /\ personaFile' = written
            /\ personaSettingsFile' =
                  IF OpThrew(outcome) THEN personaSettingsFile
                  ELSE savePersonaSettings(setDefaultPersonaSettings(personaSettingsFile, id))
            /\ editor' = PersonaEditor_handleSetDefault(
                            editor, getAllPersonas(written),
                            OpThrew(outcome), outcome = "loadThrows")
            /\ last' = Handled("handleSetDefault", outcome, TRUE)
    /\ UNCHANGED <<personalFile, personalSettingsFile, kind, fonts, plugin, saves, chats>>

\* useEffect on isOpen
PersonalEditorOpen ==
    /\ kind = "Personal"
    /\ ~editor.isOpen
    /\ \E loadThrows \in BOOLEAN :
        /\ editor' = [PersonalEditor_loadPersonals(editor, getAllPersonals(personalFile), loadThrows)
                        EXCEPT !.isOpen = TRUE]
        /\ last' = Handled("open", IF loadThrows THEN "loadThrows" ELSE "ok", TRUE)
    /\ UNCHANGED <<storeVars, kind, fonts, plugin, saves, chats>>

PersonalEditorClose ==
    /\ kind = "Personal"
    /\ editor.isOpen
    /\ editor' = [editor EXCEPT !.isOpen = FALSE]
    /\ last' = Handled("close", "ok", TRUE)
    /\ UNCHANGED <<storeVars, kind, fonts, plugin, saves, chats>>

PersonalEditorHandleSelectPersonal ==
    /\ kind = "Personal"
    /\ editor.isOpen
    /\ \E i \in 1..Len(editor.personals) :
        editor' = PersonalEditor_handleSelectPersonal(editor, editor.personals[i])
    /\ last' = Handled("handleSelect", "ok", TRUE)
    /\ UNCHANGED <<storeVars, kind, fonts, plugin, saves, chats>>

PersonalEditorHandleStartEdit ==
    /\ kind = "Personal"
    /\ editor.isOpen
    /\ editor.selectedPersonal # None
    /\ ~editor.isEditing
    /\ editor' = PersonalEditor_handleStartEdit(editor)
    /\ last' = Handled("handleStartEdit", "ok", TRUE)
    /\ UNCHANGED <<storeVars, kind, fonts, plugin, saves, chats>>

PersonalEditorCancelEdit ==
    /\ kind = "Personal"
    /\ editor.isOpen
    /\ editor.selectedPersonal # None
    /\ editor.isEditing
    /\ editor' = [editor EXCEPT !.isEditing = FALSE]
    /\ last' = Handled("cancelEdit", "ok", TRUE)
    /\ UNCHANGED <<storeVars, kind, fonts, plugin, saves, chats>>

PersonalEditorStartCreate ==
    /\ kind = "Personal"
    /\ editor.isOpen
    /\ ~editor.isCreating
    /\ editor' = [editor EXCEPT !.isCreating = TRUE]
    /\ last' = Handled("startCreate", "ok", TRUE)
    /\ UNCHANGED <<storeVars, kind, fonts, plugin, saves, chats>>

PersonalEditorCancelCreate ==
    /\ kind = "Personal"
    /\ editor.isOpen
    /\ editor.isCreating
    /\ editor' = [editor EXCEPT !.isCreating = FALSE]
    /\ last' = Handled("cancelCreate", "ok", TRUE)
    /\ UNCHANGED <<storeVars, kind, fonts, plugin, saves, chats>>

PersonalEditorHandleSaveEdit ==
    /\ kind = "Personal"
    /\ editor.isOpen
    /\ editor.selectedPersonal # None
    /\ editor.isEditing
    /\ \E typed \in TypedNames, outcome \in OneWriteOutcomes :
        LET name == trimmedName(typed)
            updated == PersonalEditor_updated(editor, name)
            written == IF OpThrew(outcome) THEN personalFile
                       ELSE writeData(savePersonal(personalFile, updated))
        IN  IF name = ""
            THEN /\ UNCHANGED <<personalFile, editor>>
                 /\ last' = Handled("handleSaveEdit", "ok", FALSE)
            ELSE /\ personalFile' = written
                 /\ editor' = PersonalEditor_handleSaveEdit(
                                 editor, getAllPersonals(written), updated,
                                 OpThrew(outcome), outcome = "loadThrows")
                 /\ last' = Handled("handleSaveEdit", outcome, TRUE)
    /\ UNCHANGED <<personalSettingsFile, personaFile, personaSettingsFile, kind, fonts, plugin, saves, chats>>

\* id is the id createEmptyPersonal generates: one no stored entity has
PersonalEditorHandleCreateNew ==
    /\ kind = "Personal"
    /\ editor.isOpen
    /\ editor.isCreating
    /\ \E typed \in TypedNames, outcome \in OneWriteOutcomes, id \in Ids :
        LET name == trimmedName(typed)
            newPersonal == createNewPersonal(id, name)
            written == IF OpThrew(outcome) THEN personalFile
                       ELSE writeData(savePersonal(personalFile, newPersonal))
        IN  /\ ~Existed(personalFile, id)
            /\ IF name = ""
               THEN /\ UNCHANGED <<personalFile, editor>>
                    /\ last' = Handled("handleCreateNew", "ok", FALSE)
               ELSE /\ personalFile' = written
                    /\ editor' = PersonalEditor_handleCreateNew(
                                    editor, getAllPersonals(written), newPersonal,
                                    OpThrew(outcome), outcome = "loadThrows")
                    /\ last' = Handled("handleCreateNew", outcome, TRUE)
    /\ UNCHANGED <<personalSettingsFile, personaFile, personaSettingsFile, kind, fonts, plugin, saves, chats>>

\* confirmed: what confirm() returns
PersonalEditorHandleDelete ==
    /\ kind = "Personal"
    /\ editor.isOpen
    /\ editor.selectedPersonal # None
    /\ ~editor.isEditing
    /\ Len(editor.personals) > 1
    /\ \E confirmed \in BOOLEAN, outcome \in TwoWriteOutcomes :
        LET id == editor.selectedPersonal[1].id
            filtered == deletePersonalFiltered(personalFile, id)
            written == IF outcome = "opThrows" THEN personalFile
                       ELSE writeData(filtered)
        IN  IF ~confirmed
            THEN /\ UNCHANGED <<personalFile, personalSettingsFile, editor>>
                 /\ last' = Handled("handleDelete", "ok", FALSE)
            ELSE /\ personalFile' = written
                 /\ personalSettingsFile' =
                       IF OpThrew(outcome) THEN personalSettingsFile
                       ELSE savePersonalSettings(
                               deletePersonalSettings(personalSettingsFile, filtered, id))
                 /\ editor' = PersonalEditor_handleDelete(
                                 editor, getAllPersonals(written),
                                 OpThrew(outcome), outcome = "loadThrows")
                 /\ last' = Handled("handleDelete", outcome, TRUE)
    /\ UNCHANGED <<personaFile, personaSettingsFile, kind, fonts, plugin, saves, chats>>

PersonalEditorHandleSetDefault ==
    /\ kind = "Personal"
    /\ editor.isOpen
    /\ editor.selectedPersonal # None
    /\ ~editor.isEditing
    /\ ~editor.selectedPersonal[1].isDefault
    /\ \E outcome \in TwoWriteOutcomes :
        LET id == editor.selectedPersonal[1].id
            written == IF outcome = "opThrows" THEN personalFile
                       ELSE writeData(setDefaultPersonalList(personalFile, id))
        IN  /\ personalFile' = written
            /\ personalSettingsFile' =
                  IF OpThrew(outcome) THEN personalSettingsFile
                  ELSE savePersonalSettings(setDefaultPersonalSettings(personalSettingsFile, id))
            /\ editor' = PersonalEditor_handleSetDefault(
                            editor, getAllPersonals(written),
                            OpThrew(outcome), outcome = "loadThrows")
            /\ last' = Handled("handleSetDefault", outcome, TRUE)
    /\ UNCHANGED <<personaFile, personaSettingsFile, kind, fonts, plugin, saves, chats>>

NextEditor ==
    \/ PersonaEditorOpen
    \/ PersonaEditorClose
    \/ PersonaEditorHandleSelectPersona
    \/ PersonaEditorHandleStartEdit
    \/ PersonaEditorCancelEdit
    \/ PersonaEditorStartCreate
    \/ PersonaEditorCancelCreate
    \/ PersonaEditorHandleSaveEdit
    \/ PersonaEditorHandleCreateNew
    \/ PersonaEditorHandleDelete
    \/ PersonaEditorHandleSetDefault
    \/ PersonalEditorOpen
    \/ PersonalEditorClose
    \/ PersonalEditorHandleSelectPersonal
    \/ PersonalEditorHandleStartEdit
    \/ PersonalEditorCancelEdit
    \/ PersonalEditorStartCreate
    \/ PersonalEditorCancelCreate
    \/ PersonalEditorHandleSaveEdit
    \/ PersonalEditorHandleCreateNew
    \/ PersonalEditorHandleDelete
    \/ PersonalEditorHandleSetDefault

SpecEditor == InitEditor /\ [][NextEditor]_vars

\* the editor's list and selection, whichever editor the run mounts
EditorList == IF kind = "Persona" THEN editor.personas ELSE editor.personals
EditorSelected ==
    IF kind = "Persona" THEN editor.selectedPersona ELSE editor.selectedPersonal

(* ---------------------------------------------------------------------- *)
(* Two save calls in progress at once: steps                               *)
(* ---------------------------------------------------------------------- *)
InitSaves ==
    /\ personaFile = <<>>
    /\ personaSettingsFile = <<>>
    /\ personalFile = <<>>
    /\ personalSettingsFile = <<>>
    /\ kind \in {"Persona", "Personal"}
    /\ last = Call("none", NULL, NULL, None, None, FALSE, FALSE, FALSE)
    /\ fonts = FontStoreInit
    /\ plugin = PluginInit
    /\ editor = PersonaEditorInit
    /\ saves = NoSaves
    /\ chats = NoChats

\* the call's await getAllPersonas() resolves
PersonaSaveReads ==
    /\ kind = "Persona"
    /\ \E c \in SaveCalls, id \in Ids, name \in Names, isDefault \in BOOLEAN :
        /\ saves.calls[c].pc = "idle"
        /\ saves' = [saves EXCEPT !.calls[c] =
                        [pc |-> "read",
                         arg |-> Some([id |-> id, name |-> name, isDefault |-> isDefault]),
                         personas |-> getAllPersonas(personaFile),
                         saw |-> Len(saves.order)]]
    /\ UNCHANGED <<storeVars, kind, last, fonts, plugin, editor, chats>>

\* the call's await writeData(...) resolves
PersonaSaveWrites ==
    /\ kind = "Persona"
    /\ \E c \in SaveCalls :
        /\ saves.calls[c].pc = "read"
        /\ personaFile' = savePersonaWrites(saves.calls[c].personas, personaFile,
                                      saves.calls[c].arg[1])
        /\ saves' = [saves EXCEPT !.calls[c].pc = "done",
                                  !.order = Append(@, c)]
    /\ UNCHANGED <<personaSettingsFile, personalFile, personalSettingsFile, kind, last, fonts, plugin, editor, chats>>

\* the call's await getAllPersonals() resolves
PersonalSaveReads ==
    /\ kind = "Personal"
    /\ \E c \in SaveCalls, id \in Ids, name \in Names, isDefault \in BOOLEAN :
        /\ saves.calls[c].pc = "idle"
        /\ saves' = [saves EXCEPT !.calls[c] =
                        [pc |-> "read",
                         arg |-> Some([id |-> id, name |-> name, isDefault |-> isDefault, personality |-> ""]),
                         personas |-> getAllPersonals(personalFile),
                         saw |-> Len(saves.order)]]
    /\ UNCHANGED <<storeVars, kind, last, fonts, plugin, editor, chats>>

\* the call's await writeData(...) resolves
PersonalSaveWrites ==
    /\ kind = "Personal"
    /\ \E c \in SaveCalls :
        /\ saves.calls[c].pc = "read"
        /\ personalFile' = savePersonalWrites(saves.calls[c].personas, personalFile,
                                      saves.calls[c].arg[1])
        /\ saves' = [saves EXCEPT !.calls[c].pc = "done",
                                  !.order = Append(@, c)]
    /\ UNCHANGED <<personalSettingsFile, personaFile, personaSettingsFile, kind, last, fonts, plugin, editor, chats>>

NextSaves ==
    \/ PersonaSaveReads
    \/ PersonaSaveWrites
    \/ PersonalSaveReads
    \/ PersonalSaveWrites

SpecSaves == InitSaves /\ [][NextSaves]_vars

\* both calls have written, and they saved entities with distinct ids
BothSaved ==
    /\ \A c \in SaveCalls : saves.calls[c].pc = "done"
    /\ saves.calls["s1"].arg[1].id # saves.calls["s2"].arg[1].id

\* the call that wrote first, the call that wrote second
FirstWriter == saves.calls[saves.order[1]]
SecondWriter == saves.calls[saves.order[2]]

(* ---------------------------------------------------------------------- *)
(* The Persona and the Personal operations, called side by side            *)
(* ---------------------------------------------------------------------- *)
\* the personality a saved Personal is given; createEmptyPersonal and
\* createDefaultPersonal give the empty one
Personalities == {"shy"}

\* the operation a step called on both stores and what each returned
Pair(op, persona, personal) == [op |-> op, persona |-> persona, personal |-> personal]

InitBoth ==
    /\ personaFile = <<>>
    /\ personaSettingsFile = <<>>
    /\ personalFile = <<>>
    /\ personalSettingsFile = <<>>
    /\ kind = "Both"
    /\ last = Pair("none", None, None)
    /\ fonts = FontStoreInit
    /\ plugin = PluginInit
    /\ editor = PersonaEditorInit
    /\ saves = NoSaves
    /\ chats = NoChats

BothGetAll ==
    /\ last' = Pair("getAll", Some(getAllPersonas(personaFile)),
                    Some(getAllPersonals(personalFile)))
    /\ UNCHANGED <<storeVars, kind, auxVars>>

BothGetById ==
    /\ \E id \in Ids :
        last' = Pair("getById", getPersonaById(personaFile, id),
                     getPersonalById(personalFile, id))
    /\ UNCHANGED <<storeVars, kind, auxVars>>

BothGetDefault ==
    /\ last' = Pair("getDefault", getDefaultPersona(personaFile),
                    getDefaultPersonal(personalFile))
    /\ UNCHANGED <<storeVars, kind, auxVars>>

BothSave ==
    /\ \E id \in Ids, name \in Names, isDefault \in BOOLEAN,
          personality \in Personalities :
        /\ personaFile' = writeData(savePersona(personaFile,
                [id |-> id, name |-> name, isDefault |-> isDefault]))
        /\ personalFile' = writeData(savePersonal(personalFile,
                [id |-> id, name |-> name, isDefault |-> isDefault,
                 personality |-> personality]))
    /\ last' = Pair("save", None, None)
    /\ UNCHANGED <<personaSettingsFile, personalSettingsFile, kind, auxVars>>

BothDelete ==
    /\ \E id \in Ids :
        LET filteredPersonas == deletePersonaFiltered(personaFile, id)
            filteredPersonals == deletePersonalFiltered(personalFile, id)
        IN  /\ personaFile' = writeData(filteredPersonas)
            /\ personaSettingsFile' = savePersonaSettings(
                  deletePersonaSettings(personaSettingsFile, filteredPersonas, id))
            /\ personalFile' = writeData(filteredPersonals)
            /\ personalSettingsFile' = savePersonalSettings(
                  deletePersonalSettings(personalSettingsFile, filteredPersonals, id))
    /\ last' = Pair("delete", None, None)
    /\ UNCHANGED <<kind, auxVars>>

BothSetDefault ==
    /\ \E id \in Ids :
        /\ personaFile' = writeData(setDefaultPersonaList(personaFile, id))
        /\ personaSettingsFile' =
              savePersonaSettings(setDefaultPersonaSettings(personaSettingsFile, id))
        /\ personalFile' = writeData(setDefaultPersonalList(personalFile, id))
        /\ personalSettingsFile' =
              savePersonalSettings(setDefaultPersonalSettings(personalSettingsFile, id))
    /\ last' = Pair("setDefault", None, None)
    /\ UNCHANGED <<kind, auxVars>>

BothGetForCharacter ==
    /\ \E c \in Chars :
        last' = Pair("getForCharacter",
                     getPersonaForCharacter(personaFile, personaSettingsFile, c),
                     getPersonalForCharacter(personalFile, personalSettingsFile, c))
    /\ UNCHANGED <<storeVars, kind, auxVars>>

BothSetForCharacter ==
    /\ \E c \in Chars, id \in Ids \cup {NULL} :
        /\ personaSettingsFile' =
              savePersonaSettings(setPersonaForCharacter(personaSettingsFile, c, id))
        /\ personalSettingsFile' =
              savePersonalSettings(setPersonalForCharacter(personalSettingsFile, c, id))
    /\ last' = Pair("setForCharacter", None, None)
    /\ UNCHANGED <<personaFile, personalFile, kind, auxVars>>

\* id: the ids the two createDefault calls generate, taken to correspond
BothInitializeDefault ==
    /\ \E id \in Ids, username \in Names :
        /\ personaFile' = initializeDefaultPersonaList(personaFile, id, username)
        /\ personaSettingsFile' =
              initializeDefaultPersonaSettings(personaFile, personaSettingsFile, id)
        /\ personalFile' = initializeDefaultPersonalList(personalFile, id, username)
        /\ personalSettingsFile' =
              initializeDefaultPersonalSettings(personalFile, personalSettingsFile, id)
        /\ last' = Pair("initializeDefault",
                        Some(initializeDefaultPersonaResult(personaFile, id, username)),
                        Some(initializeDefaultPersonalResult(personalFile, id, username)))
    /\ UNCHANGED <<kind, auxVars>>

\* id: the ids the two createEmpty calls generate, taken to correspond; no
\* stored entity has them
BothCreateNew ==
    /\ \E id \in Ids, name \in Names :
        /\ ~Existed(personaFile, id)
        /\ ~Existed(personalFile, id)
        /\ personaFile' = writeData(savePersona(personaFile, createNewPersona(id, name)))
        /\ personalFile' = writeData(savePersonal(personalFile, createNewPersonal(id, name)))
        /\ last' = Pair("createNew", Some(createNewPersona(id, name)),
                        Some(createNewPersonal(id, name)))
    /\ UNCHANGED <<personaSettingsFile, personalSettingsFile, kind, auxVars>>

NextBoth ==
    \/ BothGetAll
    \/ BothGetById
    \/ BothGetDefault
    \/ BothSave
    \/ BothDelete
    \/ BothSetDefault
    \/ BothGetForCharacter
    \/ BothSetForCharacter
    \/ BothInitializeDefault
    \/ BothCreateNew

SpecBoth == InitBoth /\ [][NextBoth]_vars

\* a Personal without its personality field, an array of them, and the
\* Personal settings with the fields named as in the Persona settings
AsPersona(personal) ==
    [id |-> personal.id, name |-> personal.name, isDefault |-> personal.isDefault]
AsPersonas(personals) == [i \in 1..Len(personals) |-> AsPersona(personals[i])]
AsPersonaSettings(settings) ==
    [defaultPersonaId |-> settings.defaultPersonalId,
     characterPersonaMap |-> settings.characterPersonalMap]

\* what the last step returned on the Personal side, read as a Persona result
PersonalResultAsPersona ==
    IF last.personal = None THEN None
    ELSE IF last.op = "getAll" THEN Some(AsPersonas(last.personal[1]))
    ELSE Some(AsPersona(last.personal[1]))

(* ---------------------------------------------------------------------- *)
(* Properties                                                              *)
(* ---------------------------------------------------------------------- *)

\* C1: after any save (savePersona/savePersonal, the save done by createNew
\* included), a non-empty stored collection has exactly one entity with
\* isDefault = true.  save only clears flags and never elects a default, so
\* this fails, e.g. for the first createNew on an empty store.
C1_ExactlyOneDefaultAfterSave ==
    last.op \in {"save", "createNew"} =>
        (Len(File) > 0 => DefaultCount(File) = 1)

\* C2: from the empty store, in every state reached by save, delete,
\* setDefault, createNew and initializeDefault calls, at most one entity of a
\* kind has isDefault = true.
C2_AtMostOneDefault ==
    /\ DefaultCount(personaFile) <= 1
    /\ DefaultCount(personalFile) <= 1

\* a save with isDefault = true of a stored, not yet default entity has left
\* two entities, one of them default
C2_Witness ==
    /\ last.op = "save"
    /\ last.existed /\ ~last.wasDefault
    /\ last.arg[1].isDefault
    /\ Len(File) = 2
    /\ DefaultCount(File) = 1

\* C3: after any delete(id), a non-empty remaining collection has exactly one
\* entity with isDefault = true.
C3_DeleteSelfHealing ==
    last.op = "delete" =>
        (Len(File) > 0 => DefaultCount(File) = 1)

\* a delete of a stored entity that was not the default has left a
\* non-empty collection
C3_Witness ==
    /\ last.op = "delete"
    /\ last.existed /\ ~last.wasDefault
    /\ Len(File) > 0
    /\ DefaultCount(File) = 1

\* the entities of file other than id, in stored order
Remaining(file, id) == SelectSeq(file, LAMBDA p : p.id # id)

C5_DeleteCleansSettings ==
    [][last'.op = "delete"
       => LET id == last'.id
          IN  /\ DefaultId' # id
              /\ \A c \in DOMAIN CharMap' : CharMap'[c] # id
              /\ DOMAIN CharMap' = {c \in DOMAIN CharMap : CharMap[c] # id}
              /\ \A c \in DOMAIN CharMap' : CharMap'[c] = CharMap[c]]_vars

\* a delete of an entity some character was mapped to
C5_Witness ==
    /\ last.op = "delete"
    /\ last.existed /\ last.wasMapped
    /\ CharMap = EmptyMap

C7_UnsetThenGetIsDefault ==
    [][/\ (last'.op = "setForCharacter" /\ last'.id = NULL)
            => last'.char \notin DOMAIN CharMap'
       /\ (/\ last.op = "setForCharacter" /\ last.id = NULL
           /\ last'.op = "getForCharacter" /\ last'.char = last.char)
            => last'.ret = GetDefault']_vars

\* a mapping that existed was removed, with two entities stored
C7_Witness ==
    /\ last.op = "setForCharacter"
    /\ last.id = NULL
    /\ last.wasMapped
    /\ Len(File) = 2

C9_SaveIsUpsert ==
    [][last'.op = "save"
       => LET e == last'.arg[1]
              others(p) == IF e.isDefault THEN [p EXCEPT !.isDefault = FALSE] ELSE p
          IN  /\ Cardinality({i \in 1..Len(File') : File'[i].id = e.id}) = 1
              /\ \E i \in 1..Len(File') : File'[i] = e
              /\ Len(File') = Len(File) + (IF Existed(File, e.id) THEN 0 ELSE 1)
              /\ \A i \in 1..Len(File) :
                    IF File[i].id = e.id
                    THEN File'[i] = e
                    ELSE File'[i] = others(File[i])
              /\ ~Existed(File, e.id) => File'[Len(File) + 1] = e]_vars

\* a stored entity was saved again, as the default, next to another entity
C9_Witness ==
    /\ last.op = "save"
    /\ last.existed
    /\ last.arg[1].isDefault
    /\ Len(File) = 2
    /\ \E i \in 1..Len(File) : File[i] = last.arg[1]

\* C10: getDefault returns the entity flagged isDefault when one exists,
\* otherwise the first stored entity, null only when the collection is
\* empty; it writes nothing.
C10_GetDefault ==
    [][last'.op = "getDefault"
       => /\ UNCHANGED storeVars
          /\ IF Defaults(File) # {}
             THEN \E i \in Defaults(File) : last'.ret = Some(File[i])
             ELSE IF Len(File) > 0
                  THEN last'.ret = Some(File[1])
                  ELSE last'.ret = None
          /\ (last'.ret = None) <=> (Len(File) = 0)]_vars

\* getDefault returned the flagged entity, which is not the first one
C10_Witness ==
    /\ last.op = "getDefault"
    /\ last.ret # None
    /\ last.ret[1].isDefault
    /\ File[1] # last.ret[1]

\* C11: createNew(name) appends exactly one entity to the stored collection:
\* one with an id no stored entity had, the given name and isDefault =
\* FALSE; it returns that entity, and every entity stored before (its
\* default flag included) and the settings record are as they were.
C11_CreateNewFrame ==
    [][last'.op = "createNew"
       => LET e == last'.ret[1]
          IN  /\ last'.ret # None
              /\ ~Existed(File, e.id)
              /\ e.name = last'.arg[1]
              /\ e.isDefault = FALSE
              /\ File' = Append(File, e)
              /\ \A i \in 1..Len(File) : File'[i] = File[i]
              /\ Defaults(File') = Defaults(File)
              /\ UNCHANGED <<personaSettingsFile, personalSettingsFile>>]_vars

\* createNew("Ann") added a second entity next to a stored default
C11_Witness ==
    /\ last.op = "createNew"
    /\ last.arg = Some("Ann")
    /\ Len(File) = 2
    /\ File[1].isDefault
    /\ File[2] = last.ret[1]
    /\ Len(SettingsFile) = 1

\* C12: the persisted settings collection of each kind never holds more
\* than one record; every call that writes settings (delete, setDefault,
\* setXForCharacter, initializeDefault on an empty collection) leaves
\* exactly one record; getSettings on an empty settings collection returns
\* the record with a null default id and an empty map and writes nothing.
C12_SettingsSingleton ==
    [][/\ Len(personaSettingsFile') <= 1
       /\ Len(personalSettingsFile') <= 1
       /\ (last'.op \in {"delete", "setDefault", "setForCharacter"}
             => Len(SettingsFile') = 1)
       /\ (SettingsFile' # SettingsFile => Len(SettingsFile') = 1)
       /\ (last'.op = "getSettings"
             => /\ UNCHANGED storeVars
                /\ (Len(SettingsFile) = 0 => last'.ret = Some(EmptySettings))
                /\ (Len(SettingsFile) = 1 => last'.ret = Some(SettingsFile[1])))]_vars

\* getSettings was called on an empty settings collection next to a
\* non-empty entity collection, and the settings collection is still empty
C12_Witness ==
    /\ last.op = "getSettings"
    /\ last.ret = Some(EmptySettings)
    /\ Len(SettingsFile) = 0
    /\ Len(File) > 0

\* C18: every entity id the settings refer to (each value of the character
\* map, and the default id when it is not null) is the id of a stored
\* entity.
C18_NoDanglingReference ==
    /\ \A c \in DOMAIN CharMap : Existed(File, CharMap[c])
    /\ (DefaultId # NULL => Existed(File, DefaultId))

\* C19: the default id of the settings is null or the id of an entity
\* whose isDefault flag is true.
C19_DefaultRecordsAgree ==
    DefaultId # NULL => WasDefault(File, DefaultId)

\* C13: the document never holds more than one stylesheet link for a font
\* family, whatever sequence of loadGoogleFont, updateFontSettings and
\* addCustomFont calls (and resets and removals) the store has served.
C13_OneLinkPerFamily ==
    \A fontName \in LoadInputs : Cardinality(LinksOf(fontName)) <= 1

\* "O S" was added as a custom font and assigned to two slots, "O  S" (same
\* link id) was loaded too, and the document holds one link for the family
C13_Witness ==
    /\ includes(fonts.customFonts, Str_OS)
    /\ fonts.fontSettings.normalFont = Str_OS
    /\ fonts.fontSettings.dialogueFont = Str_OS
    /\ {Str_OS, Str_O_S} \subseteq fonts.loadedFonts
    /\ Cardinality(LinksOf(Str_OS)) = 1

\* C14 as stated: over any sequence of plugin hook calls and token usage
\* events, none of messageCount, totalTokens and totalCharacters ever
\* decreases.
C14_CountersMonotonic ==
    [][NotBelow(plugin'.messageStats, plugin.messageStats)]_vars

\* C14: a step that disables the plugin (onDisable, onSettingsChange with
\* enabled false, onUnload while enabled) resets the three counters to 0;
\* every other hook call or token usage event leaves each counter where it
\* was or increases it.
C14_CountersMonotonicUntilDisable ==
    [][IF plugin.isEnabled /\ ~plugin'.isEnabled
       THEN /\ plugin'.messageStats.messageCount = 0
            /\ plugin'.messageStats.totalTokens = 0
            /\ plugin'.messageStats.totalCharacters = 0
       ELSE NotBelow(plugin'.messageStats, plugin.messageStats)]_vars

\* the enabled plugin had counted messages, tokens and characters when it
\* was disabled, and the counters are 0 again
C14_Witness ==
    /\ last.op \in {"onDisable", "onSettingsChange", "onUnload"}
    /\ last.before.messageCount > 0
    /\ last.before.totalTokens > 0
    /\ last.before.totalCharacters > 0
    /\ ~plugin.isEnabled
    /\ plugin.messageStats = ZeroStats

\* C15: when the store operation a handler of the editor calls (save,
\* createNew, delete, setDefault) throws, the handler leaves the component
\* state as it was: the same list, the same selected entity, the same
\* isEditing and isCreating, and isLoading false.
C15_FailedHandlerLeavesUi ==
    [][(last'.ran /\ OpThrew(last'.outcome))
       => /\ last'.op \in {"handleSaveEdit", "handleCreateNew",
                           "handleDelete", "handleSetDefault"}
          /\ editor' = editor
          /\ ~editor'.isLoading]_vars

\* delete threw after it had written the entity array: the store lost the
\* entity, and the editor still lists and selects it
C15_Witness ==
    /\ last = Handled("handleDelete", "opThrowsBetweenWrites", TRUE)
    /\ Len(EditorList) = 2
    /\ Len(File) = 1
    /\ EditorSelected # None
    /\ ~Existed(File, EditorSelected[1].id)
    /\ ~editor.isLoading

\* C20: while the store is driven through the editor only, starting from a
\* store with one default entity, the stored collection has exactly one
\* default entity.
C20_EditorKeepsOneDefault ==
    DefaultCount(File) = 1

\* C16: a save reads the whole collection and later writes the whole
\* collection built from what it read.  When two saves of distinct ids on
\* the empty store have both written, the entity of the second writer is
\* stored, and the entity of the first writer is missing exactly when the
\* second writer had read before the first wrote (a lost update).
C16_LostUpdate ==
    BothSaved
    => /\ Existed(File, SecondWriter.arg[1].id)
       /\ (~Existed(File, FirstWriter.arg[1].id)) <=> (SecondWriter.saw = 0)

\* both saves completed and the stored collection holds one entity only
C16_Witness ==
    /\ BothSaved
    /\ SecondWriter.saw = 0
    /\ Len(File) = 1
    /\ ~Existed(File, FirstWriter.arg[1].id)

\* C17: after every step of a run that calls corresponding Persona and
\* Personal operations with the same arguments, the two calls have returned
\* the same result, and the two collections and the two settings records
\* are the same, once the personality field is dropped and the Personal
\* names are read as the Persona names.
C17_SameBehaviour ==
    /\ AsPersonas(personalFile) = personaFile
    /\ Len(personalSettingsFile) = Len(personaSettingsFile)
    /\ \A i \in 1..Len(personalSettingsFile) :
          AsPersonaSettings(personalSettingsFile[i]) = personaSettingsFile[i]
    /\ PersonalResultAsPersona = last.persona

\* the default was deleted on both sides, both promoted the entity that
\* was left, which carries a personality on the Personal side
C17_Witness ==
    /\ last.op = "delete"
    /\ Len(personaFile) = 1
    /\ personaFile[1].isDefault
    /\ personalFile[1].personality = "shy"
    /\ Len(personaSettingsFile) = 1
    /\ personaSettingsFile[1].defaultPersonaId = personaFile[1].id
    /\ personaSettingsFile[1].characterPersonaMap # EmptyMap

\* C21: while the store is driven through the editor, starting from a
\* non-empty collection, the stored collection is never empty.
C21_EditorNeverEmptiesStore ==
    Len(File) > 0

\* C22: initializeDefault on an empty collection leaves exactly one entity,
\* flagged default, which it returns, and the settings default id is that
\* entity's id; on a non-empty collection it writes nothing and returns
\* the flagged entity, or the first one when none is flagged.  A call that
\* follows another initializeDefault call therefore changes no stored state
\* and returns what the first call returned.
C22_InitializeDefaultIdempotent ==
    [][last'.op = "initializeDefault"
       => /\ last'.ret # None
          /\ IF Len(File) = 0
             THEN /\ Len(File') = 1
                  /\ File'[1].isDefault
                  /\ last'.ret = Some(File'[1])
                  /\ Len(SettingsFile') = 1
                  /\ DefaultId' = File'[1].id
             ELSE /\ UNCHANGED storeVars
                  /\ IF Defaults(File) # {}
                     THEN \E i \in Defaults(File) : last'.ret = Some(File[i])
                     ELSE last'.ret = Some(File[1])
          /\ (last.op = "initializeDefault"
                => UNCHANGED storeVars /\ last'.ret = last.ret)]_vars

\* initializeDefault was called on the collection an earlier call had
\* initialized, and returned the entity that call created
C22_Witness ==
    /\ last.op = "initializeDefault"
    /\ last.existed
    /\ Len(File) = 1
    /\ last.ret = Some(File[1])
    /\ File[1].isDefault
    /\ File[1].name = "User"
    /\ DefaultId = File[1].id

(* ---------------------------------------------------------------------- *)
(* The recent-chats components, mounted                                     *)
(* ---------------------------------------------------------------------- *)
notChats == <<personaFile, personaSettingsFile, personalFile, personalSettingsFile,
              kind, fonts, plugin, editor, saves>>

\* what the last step of a recent-chats component did: started tells
\* whether a click started a switch, callback whether onBranchSwitch was
\* called, pushed whether router.push was called
ChatEvent(op, nodeId, outcome, started, callback, pushed) ==
    [op |-> op, nodeId |-> nodeId, outcome |-> outcome, started |-> started,
     callback |-> callback, pushed |-> pushed]

\* the answers switchDialogueBranch can give: it succeeds only for a
\* branch of the character's own tree
Answers(characterId, nodeId) ==
    IF \E i \in 1..Len(Nodes[characterId]) : Nodes[characterId][i] = nodeId
    THEN SwitchOutcomes
    ELSE SwitchOutcomes \ {"success"}

\* the component after its first render and the effect of that render
InitChats ==
    /\ personaFile = <<>>
    /\ personaSettingsFile = <<>>
    /\ personalFile = <<>>
    /\ personalSettingsFile = <<>>
    /\ kind \in {"RecentChatsList", "SidebarRecentChats"}
    /\ last = ChatEvent("none", NULL, NULL, FALSE, FALSE, FALSE)
    /\ fonts = FontStoreInit
    /\ plugin = PluginInit
    /\ editor = PersonaEditorInit
    /\ saves = NoSaves
    /\ IF kind = "RecentChatsList"
       THEN \E c \in Characters \cup {""}, cb \in BOOLEAN :
               chats = RecentChatsList_fetchBranchesStarts(
                          [NoChats EXCEPT !.characterId = c, !.hasCallback = cb])
       ELSE chats = [NoChats EXCEPT !.isLoading = FALSE]

\* the parent renders the list for another character: the effect runs the
\* new fetchBranches
RecentChatsCharacterChanges ==
    /\ kind = "RecentChatsList"
    /\ Len(chats.fetches) < MaxFetches
    /\ \E c \in (Characters \cup {""}) \ {chats.characterId} :
          chats' = RecentChatsList_fetchBranchesStarts(
                      [chats EXCEPT !.characterId = c])
    /\ last' = ChatEvent("characterId", NULL, NULL, FALSE, FALSE, FALSE)
    /\ UNCHANGED notChats

\* the parent changes refreshTrigger: the effect runs fetchBranches again
RecentChatsRefreshTriggered ==
    /\ kind = "RecentChatsList"
    /\ Len(chats.fetches) < MaxFetches
    /\ chats' = RecentChatsList_fetchBranchesStarts(chats)
    /\ last' = ChatEvent("refreshTrigger", NULL, NULL, FALSE, FALSE, FALSE)
    /\ UNCHANGED notChats

\* a getRecentBranches call started by an effect resolves or throws; the
\* calls in flight complete in any order
RecentChatsFetchResolves ==
    /\ kind = "RecentChatsList"
    /\ \E i \in 1..Len(chats.fetches), threw \in BOOLEAN :
          /\ chats' = [RecentChatsList_fetchBranchesResolves(
                          chats, chats.fetches[i], threw)
                       EXCEPT !.fetches = RemoveAt(@, i)]
          /\ last' = ChatEvent("fetched", NULL,
                               IF threw THEN "throws" ELSE "success",
                               FALSE, FALSE, FALSE)
    /\ UNCHANGED notChats

\* the user clicks a row of the displayed list
RecentChatsBranchClick ==
    /\ kind = "RecentChatsList"
    /\ ~chats.isLoading
    /\ \E i \in 1..Len(chats.branches) :
          /\ chats' = RecentChatsList_onClick(chats, chats.branches[i])
          /\ last' = ChatEvent("click", chats.branches[i].nodeId, NULL,
                               Len(chats'.switches) > Len(chats.switches),
                               FALSE, FALSE)
    /\ UNCHANGED notChats

\* switchDialogueBranch answers a switch in flight
RecentChatsSwitchAnswers ==
    /\ kind = "RecentChatsList"
    /\ \E i \in 1..Len(chats.switches) :
          /\ chats.switches[i].pc = "switching"
          /\ \E outcome \in Answers(chats.switches[i].characterId,
                                    chats.switches[i].nodeId) :
                /\ chats' = RecentChatsList_switchAnswered(chats, i, outcome)
                /\ last' = ChatEvent("answered", chats.switches[i].nodeId, outcome,
                                     FALSE,
                                     outcome # "success"
                                        /\ RecentChatsList_callsOnBranchSwitch(
                                              chats.switches[i], chats.hasCallback),
                                     FALSE)
    /\ UNCHANGED notChats

\* the fetchBranches awaited by a successful switch completes
RecentChatsSwitchRefreshed ==
    /\ kind = "RecentChatsList"
    /\ \E i \in 1..Len(chats.switches), threw \in BOOLEAN :
          /\ chats.switches[i].pc = "refreshing"
          /\ chats' = RecentChatsList_switchRefreshed(chats, i, threw)
          /\ last' = ChatEvent("refreshed", chats.switches[i].nodeId, "success",
                               FALSE,
                               RecentChatsList_callsOnBranchSwitch(
                                  chats.switches[i], chats.hasCallback),
                               FALSE)
    /\ UNCHANGED notChats

\* the user clicks a branch row of the modal's list
SidebarBranchClick ==
    /\ kind = "SidebarRecentChats"
    /\ \E c \in Characters, i \in 1..2 :
          /\ chats' = SidebarRecentChats_handleBranchClick(chats, c, Nodes[c][i])
          /\ last' = ChatEvent("click", Nodes[c][i], NULL,
                               Len(chats'.switches) > Len(chats.switches),
                               FALSE, FALSE)
    /\ UNCHANGED notChats

\* switchDialogueBranch answers the modal's switch
SidebarSwitchAnswers ==
    /\ kind = "SidebarRecentChats"
    /\ \E i \in 1..Len(chats.switches) :
          \E outcome \in Answers(chats.switches[i].characterId,
                                 chats.switches[i].nodeId) :
             /\ chats' = SidebarRecentChats_switchAnswered(chats, i, outcome)
             /\ last' = ChatEvent("answered", chats.switches[i].nodeId, outcome,
                                  FALSE, FALSE, outcome = "success")
    /\ UNCHANGED notChats

NextChats ==
    \/ RecentChatsCharacterChanges
    \/ RecentChatsRefreshTriggered
    \/ RecentChatsFetchResolves
    \/ RecentChatsBranchClick
    \/ RecentChatsSwitchAnswers
    \/ RecentChatsSwitchRefreshed
    \/ SidebarBranchClick
    \/ SidebarSwitchAnswers

SpecChats == InitChats /\ [][NextChats]_vars

\* C23: in both recent-chat lists at most one branch switch is in flight,
\* switchingBranchId is non-null exactly while it is and names its branch;
\* a click while a switch is in flight, or on the current branch in
\* RecentChatsList, starts none; and the step that ends a switch (success,
\* reported failure or throw) leaves switchingBranchId null.
C23_OneSwitchInFlight ==
    [][/\ Len(chats'.switches) <= 1
       /\ (chats'.switchingBranchId = NULL) = (chats'.switches = <<>>)
       /\ (chats'.switches # <<>>
             => chats'.switchingBranchId = chats'.switches[1].nodeId)
       /\ (last'.op = "click" /\ chats.switchingBranchId # NULL
             => ~last'.started /\ chats' = chats)
       /\ (last'.op = "click" /\ kind = "RecentChatsList"
              /\ (\E i \in 1..Len(chats.branches) :
                     chats.branches[i].nodeId = last'.nodeId
                        /\ chats.branches[i].isCurrent)
             => ~last'.started /\ chats' = chats)
       /\ (Len(chats'.switches) < Len(chats.switches)
             => chats'.switchingBranchId = NULL)]_vars

\* a click arrived while a switch was in flight and started nothing
C23_Witness ==
    /\ last.op = "click"
    /\ ~last.started
    /\ Len(chats.switches) = 1
    /\ chats.switches[1].nodeId # last.nodeId
    /\ chats.switchingBranchId = chats.switches[1].nodeId

\* C24: in RecentChatsList onBranchSwitch is called only in the step in
\* which the refresh started by a successfully answered switch completes,
\* and then whenever a callback was supplied; a switch that reports failure
\* or throws starts no refresh (the list and isLoading stay as they were)
\* and calls nothing.
C24_CallbackAfterRefresh ==
    [][kind = "RecentChatsList"
       => /\ (last'.callback
                => /\ last'.op = "refreshed"
                   /\ chats.hasCallback
                   /\ \E i \in 1..Len(chats.switches) :
                         /\ chats.switches[i].pc = "refreshing"
                         /\ chats.switches[i].nodeId = last'.nodeId
                         /\ chats.tree[chats.switches[i].characterId] = last'.nodeId
                   /\ ~chats'.isLoading
                   /\ chats'.switches = <<>>)
          /\ (last'.op = "refreshed" /\ chats.hasCallback => last'.callback)
          /\ (last'.op = "answered" /\ last'.outcome = "success"
                => /\ ~last'.callback
                   /\ chats'.isLoading
                   /\ chats'.switches # <<>>
                   /\ chats'.switches[1].pc = "refreshing")
          /\ (last'.op = "answered" /\ last'.outcome # "success"
                => /\ ~last'.callback
                   /\ chats'.branches = chats.branches
                   /\ chats'.isLoading = chats.isLoading
                   /\ chats'.fetches = chats.fetches
                   /\ chats'.tree = chats.tree
                   /\ chats'.switches = <<>>)]_vars

\* the refresh of a successful switch completed with the new current
\* branch in the list, and onBranchSwitch was called
C24_Witness ==
    /\ kind = "RecentChatsList"
    /\ last.op = "refreshed"
    /\ last.callback
    /\ chats.switches = <<>>
    /\ \E i \in 1..Len(chats.branches) :
          chats.branches[i].nodeId = last.nodeId /\ chats.branches[i].isCurrent

\* C25: in RecentChatsList, when no fetch is outstanding, isLoading is
\* false and the displayed list is the one getRecentBranches returns for
\* the current characterId (or empty, when there is no character or the
\* last fetch failed).
C25_ListOfCurrentCharacter ==
    (kind = "RecentChatsList" /\ chats.fetches = <<>> /\ chats.switches = <<>>)
        => /\ ~chats.isLoading
           /\ \/ chats.branches = <<>>
              \/ /\ chats.characterId # ""
                 /\ \A i \in 1..Len(chats.branches) :
                       \E j \in 1..Len(Nodes[chats.characterId]) :
                          chats.branches[i].nodeId = Nodes[chats.characterId][j]

\* the total_tokens an enabled onResponse step added
AddedTokens == plugin'.messageStats.totalTokens - plugin.messageStats.totalTokens

\* C26: an enabled onResponse adds the total_tokens of exactly one source,
\* the first present of: the stored event usage, window.lastTokenUsage,
\* message.tokenUsage, context.tokenUsage, else the estimate
\* ceil(length / 4); when it uses the stored event usage it clears it, and
\* only an llm-token-usage event stores one, so no event is added twice.
C26_EventCountedOnce ==
    [][/\ (last'.op = "onResponse" /\ plugin.isEnabled
             => IF plugin.latestTokenUsage # None
                THEN /\ AddedTokens = plugin.latestTokenUsage[1]
                     /\ plugin'.latestTokenUsage = None
                     /\ plugin'.lastTokenUsage = plugin.lastTokenUsage
                ELSE /\ plugin'.latestTokenUsage = None
                     /\ IF plugin.lastTokenUsage # None
                        THEN /\ AddedTokens = plugin.lastTokenUsage[1]
                             /\ plugin'.lastTokenUsage = None
                        ELSE /\ plugin'.lastTokenUsage = None
                             /\ IF last'.message.tokenUsage # None
                                THEN AddedTokens = last'.message.tokenUsage[1]
                                ELSE IF last'.contextTokenUsage # None
                                THEN AddedTokens = last'.contextTokenUsage[1]
                                ELSE LET length ==
                                           IF last'.message.content = None THEN 0
                                           ELSE Len(last'.message.content[1])
                                     IN  /\ 4 * AddedTokens >= length
                                         /\ 4 * (AddedTokens - 1) < length)
       /\ (last'.op = "onResponse" /\ ~plugin.isEnabled => plugin' = plugin)
       /\ (last'.op # "llm-token-usage" /\ plugin'.latestTokenUsage # None
             => plugin'.latestTokenUsage = plugin.latestTokenUsage)]_vars

\* after a response that counted the 3 tokens of an event, a second
\* response without a new event counted the estimate for its 5 characters,
\* not the 3 tokens again
C26_Witness ==
    /\ last.op = "onResponse"
    /\ plugin.isEnabled
    /\ plugin.latestTokenUsage = None
    /\ last.before.totalTokens = 3
    /\ last.before.totalCharacters = 0
    /\ last.message = [content |-> Some(<<"h", "e", "l", "l", "o">>), tokenUsage |-> None]
    /\ last.contextTokenUsage = None
    /\ plugin.messageStats.totalTokens = 5
    /\ plugin.messageStats.totalCharacters = 5

\* C27: while the plugin is disabled messageCount, totalTokens and
\* totalCharacters are 0 and startTime is null, and onMessage and
\* onResponse change nothing.
C27_DisabledMeansZero ==
    [][/\ (~plugin'.isEnabled => plugin'.messageStats = ZeroStats)
       /\ (~plugin.isEnabled /\ last'.op \in {"onMessage", "onResponse"}
             => plugin' = plugin)]_vars

\* the plugin counted a message and a response, was disabled, and a
\* response then arrived: the counters are zero
C27_Witness ==
    /\ ~plugin.isEnabled
    /\ last.op = "onResponse"
    /\ last.message.content # None
    /\ last.before = ZeroStats
    /\ plugin.messageStats = ZeroStats
    /\ plugin.latestTokenUsage # None

(* ---------------------------------------------------------------------- *)
(* Message font store: calls with their arguments on record                *)
(* ---------------------------------------------------------------------- *)
FontSizes == {16, 18}

\* most font slots one recorded update names
MaxSlots == 1

\* Partial<MessageFontSettings> objects: up to MaxSlots font slots, and
\* possibly the size of normal text
SlotSettings ==
    {f @@ z : f \in {g \in PartialFontSettings : Cardinality(DOMAIN g) <= MaxSlots},
              z \in {<<>>} \cup {("normalFontSize" :> n) : n \in FontSizes}}

FontCall(op, settings, fontName) ==
    [op |-> op, settings |-> settings, fontName |-> fontName]

\* the store in a newly loaded page: persist restores what partialize
\* kept (fontSettings and customFonts); loadedFonts and the document start
\* afresh
rehydrate(st) ==
    [FontStoreInit EXCEPT !.fontSettings = st.fontSettings,
                          !.customFonts = st.customFonts]

InitFontCalls ==
    /\ personaFile = <<>>
    /\ personaSettingsFile = <<>>
    /\ personalFile = <<>>
    /\ personalSettingsFile = <<>>
    /\ kind = "FontCalls"
    /\ last = FontCall("none", <<>>, <<>>)
    /\ fonts = FontStoreInit
    /\ plugin = PluginInit
    /\ editor = PersonaEditorInit
    /\ saves = NoSaves
    /\ chats = NoChats

notFontsNorLast == <<personaFile, personaSettingsFile, personalFile,
                     personalSettingsFile, kind, plugin, editor, saves, chats>>

UpdateFontSettingsCall ==
    /\ \E settings \in SlotSettings :
          /\ fonts' = updateFontSettings(fonts, settings)
          /\ last' = FontCall("updateFontSettings", settings, <<>>)
    /\ UNCHANGED notFontsNorLast

ResetFontSettingsCall ==
    /\ fonts' = resetFontSettings(fonts)
    /\ last' = FontCall("resetFontSettings", <<>>, <<>>)
    /\ UNCHANGED notFontsNorLast

AddCustomFontCall ==
    /\ \E fontName \in CustomInputs \cup {<<>>} :
          /\ fonts' = addCustomFont(fonts, fontName)
          /\ last' = FontCall("addCustomFont", <<>>, fontName)
    /\ UNCHANGED notFontsNorLast

RemoveCustomFontCall ==
    /\ \E fontName \in CustomInputs \cup {Str_L} :
          /\ fonts' = removeCustomFont(fonts, fontName)
          /\ last' = FontCall("removeCustomFont", <<>>, fontName)
    /\ UNCHANGED notFontsNorLast

PageReload ==
    /\ fonts' = rehydrate(fonts)
    /\ last' = FontCall("reload", <<>>, <<>>)
    /\ UNCHANGED notFontsNorLast

NextFontCalls ==
    \/ UpdateFontSettingsCall
    \/ ResetFontSettingsCall
    \/ AddCustomFontCall
    \/ RemoveCustomFontCall
    \/ PageReload

SpecFontCalls == InitFontCalls /\ [][NextFontCalls]_vars

\* the families updateFontSettings(settings) must load in the store fonts
NewFamilies(settings) ==
    {settings[k] : k \in {j \in FontKeys \cap DOMAIN settings :
                            settings[j] # <<>> /\ settings[j] # fonts.fontSettings[j]}}

\* C28: updateFontSettings(partial) gives every slot named in partial the
\* value partial has for it, leaves every other slot and customFonts as
\* they were, and loads exactly the families of the font slots whose new
\* family is non-empty and differs from the slot's current one; an update
\* of sizes only, or one that clears families, loads nothing.
C28_UpdateFrame ==
    [][last'.op = "updateFontSettings"
       => /\ \A k \in DOMAIN fonts.fontSettings :
                fonts'.fontSettings[k] =
                   IF k \in DOMAIN last'.settings THEN last'.settings[k]
                   ELSE fonts.fontSettings[k]
          /\ DOMAIN fonts'.fontSettings = DOMAIN fonts.fontSettings
          /\ fonts'.customFonts = fonts.customFonts
          /\ fonts'.loadedFonts = fonts.loadedFonts \cup NewFamilies(last'.settings)
          /\ (NewFamilies(last'.settings) = {} => fonts'.head = fonts.head)]_vars

\* in a reloaded page whose slot already holds a family, an update named
\* that same family together with a new size: the size changed, nothing
\* was loaded, and a custom font is still listed
C28_Witness ==
    /\ last.op = "updateFontSettings"
    /\ "normalFont" \in DOMAIN last.settings
    /\ "normalFontSize" \in DOMAIN last.settings
    /\ last.settings["normalFont"] = Str_OS
    /\ fonts.fontSettings.normalFont = Str_OS
    /\ fonts.fontSettings.normalFontSize = 18
    /\ fonts.loadedFonts = {}
    /\ fonts.head = <<>>
    /\ fonts.customFonts # <<>>

\* C29: customFonts never holds a name twice, an empty name, or a name
\* that starts or ends with a space; addCustomFont of a name that is
\* present once trimmed (or is blank) changes nothing; removeCustomFont
\* removes the name, keeps the others in order and leaves fontSettings
\* as it was, also when a slot uses the removed font.
C29_CustomFontsClean ==
    [][/\ \A i \in 1..Len(fonts'.customFonts) :
             /\ fonts'.customFonts[i] # <<>>
             /\ Head(fonts'.customFonts[i]) # " "
             /\ fonts'.customFonts[i][Len(fonts'.customFonts[i])] # " "
             /\ \A j \in 1..Len(fonts'.customFonts) :
                   fonts'.customFonts[i] = fonts'.customFonts[j] => i = j
       /\ (last'.op = "addCustomFont"
              /\ (trim(last'.fontName) = <<>>
                    \/ includes(fonts.customFonts, trim(last'.fontName)))
             => fonts' = fonts)
       /\ (last'.op = "addCustomFont"
              /\ trim(last'.fontName) # <<>>
              /\ ~includes(fonts.customFonts, trim(last'.fontName))
             => /\ fonts'.customFonts =
                      Append(fonts.customFonts, trim(last'.fontName))
                /\ fonts'.fontSettings = fonts.fontSettings)
       /\ (last'.op = "removeCustomFont"
             => /\ fonts'.fontSettings = fonts.fontSettings
                /\ ~includes(fonts'.customFonts, last'.fontName)
                /\ \A f \in {Str_L, Str_OS} \ {last'.fontName} :
                      includes(fonts'.customFonts, f) = includes(fonts.customFonts, f)
                /\ fonts'.loadedFonts = fonts.loadedFonts
                /\ fonts'.head = fonts.head)]_vars

\* the custom font a slot uses was removed: the slot still names it and
\* the other custom font is still listed
C29_Witness ==
    /\ last.op = "removeCustomFont"
    /\ last.fontName = Str_OS
    /\ fonts.fontSettings.normalFont = Str_OS
    /\ fonts.customFonts = <<Str_L>>
    /\ Str_OS \in fonts.loadedFonts

(* ---------------------------------------------------------------------- *)
(* PresetNodeTools.buildPromptFramework                                     *)
(* ---------------------------------------------------------------------- *)
Descriptions == {"", "tall"}
Languages == {"zh", "en"}

\* the username argument: undefined, the empty string or a name
Usernames == {None, Some(""), Some("Bob")}

\* PresetAssembler.assemblePrompts: the messages, as built for a username
assemblePrompts(language, username) ==
    [systemMessage |-> [assembledFor |-> username, language |-> language,
                        personaSection |-> None],
     userMessage |-> [assembledFor |-> username, language |-> language]]

\* a || b on an optional string a and a string or optional string b
orElse(a, b) == IF a # None /\ a[1] # "" THEN a ELSE b

\* the section appended to the system message
personaSection(language, persona, effectiveUsername) ==
    [language |-> language,
     userName |-> orElse(Some(persona.name), orElse(effectiveUsername, Some("User")))[1],
     userDescription |-> persona.description]

buildPromptFrameworkUsernameFirst(file, sfile, characterId, language, username) ==
    LET persona == getPersonaForCharacter(file, sfile, characterId)
        name == IF persona # None THEN Some(persona[1].name) ELSE None
        effectiveUsername == orElse(username, name)
        assembled == assemblePrompts(language, effectiveUsername)
    IN  IF persona # None /\ persona[1].description # ""
        THEN [assembled EXCEPT !.systemMessage.personaSection =
                 Some(personaSection(language, persona[1], effectiveUsername))]
        ELSE assembled

\* buildPromptFramework once the character record is read: the messages it
\* returns for the stored personas and settings
buildPromptFramework(file, sfile, characterId, language, username) ==
    LET persona == getPersonaForCharacter(file, sfile, characterId)
        name == IF persona # None THEN Some(persona[1].name) ELSE None
        effectiveUsername == orElse(name, username)
        assembled == assemblePrompts(language, effectiveUsername)
    IN  IF persona # None /\ persona[1].description # ""
        THEN [assembled EXCEPT !.systemMessage.personaSection =
                 Some(personaSection(language, persona[1], effectiveUsername))]
        ELSE assembled

PromptCall(op, characterId, language, username, ret) ==
    [op |-> op, characterId |-> characterId, language |-> language,
     username |-> username, ret |-> ret]

InitPrompt ==
    /\ personaFile = <<>>
    /\ personaSettingsFile = <<>>
    /\ personalFile = <<>>
    /\ personalSettingsFile = <<>>
    /\ kind = "Prompt"
    /\ last = PromptCall("none", NULL, NULL, None, None)
    /\ fonts = FontStoreInit
    /\ plugin = PluginInit
    /\ editor = PersonaEditorInit
    /\ saves = NoSaves
    /\ chats = NoChats

notPersonaStore == <<personalFile, personalSettingsFile, kind>>

\* savePersona of a persona with a description
PromptSavePersona ==
    /\ \E id \in Ids, name \in Names, description \in Descriptions,
          isDefault \in BOOLEAN :
          personaFile' = writeData(savePersona(personaFile,
                            [id |-> id, name |-> name,
                             description |-> description, isDefault |-> isDefault]))
    /\ last' = PromptCall("save", NULL, NULL, None, None)
    /\ UNCHANGED <<personaSettingsFile, notPersonaStore, auxVars>>

PromptDeletePersona ==
    /\ \E id \in Ids :
        LET filtered == deletePersonaFiltered(personaFile, id)
        IN  /\ personaFile' = writeData(filtered)
            /\ personaSettingsFile' =
                  savePersonaSettings(deletePersonaSettings(personaSettingsFile, filtered, id))
    /\ last' = PromptCall("delete", NULL, NULL, None, None)
    /\ UNCHANGED <<notPersonaStore, auxVars>>

PromptSetPersonaForCharacter ==
    /\ \E c \in Chars, id \in Ids \cup {NULL} :
          personaSettingsFile' =
             savePersonaSettings(setPersonaForCharacter(personaSettingsFile, c, id))
    /\ last' = PromptCall("setForCharacter", NULL, NULL, None, None)
    /\ UNCHANGED <<personaFile, notPersonaStore, auxVars>>

\* buildPromptFramework returns, or fails before it reads the persona
\* (getCharacterById found no record)
BuildPromptFramework ==
    /\ \E c \in Chars, language \in Languages, username \in Usernames,
          characterFound \in BOOLEAN :
          last' = PromptCall("buildPromptFramework", c, language, username,
                     IF characterFound
                     THEN Some(buildPromptFramework(personaFile, personaSettingsFile,
                                                    c, language, username))
                     ELSE None)
    /\ UNCHANGED <<storeVars, notPersonaStore, auxVars>>

NextPrompt ==
    \/ PromptSavePersona
    \/ PromptDeletePersona
    \/ PromptSetPersonaForCharacter
    \/ BuildPromptFramework

SpecPrompt == InitPrompt /\ [][NextPrompt]_vars

\* the persona of character c: the stored persona the settings map names
\* for c when the map has an entry for c, else the flagged persona, else
\* the first one
PersonaOf(c) ==
    LET map == IF personaSettingsFile = <<>> THEN EmptyMap
               ELSE personaSettingsFile[1].characterPersonaMap
    IN  IF c \in DOMAIN map
        THEN {personaFile[i] : i \in {j \in 1..Len(personaFile) :
                                         personaFile[j].id = map[c]}}
        ELSE IF \E i \in 1..Len(personaFile) : personaFile[i].isDefault
        THEN {personaFile[CHOOSE i \in 1..Len(personaFile) :
                            /\ personaFile[i].isDefault
                            /\ \A j \in 1..(i - 1) : ~personaFile[j].isDefault]}
        ELSE IF personaFile # <<>> THEN {personaFile[1]}
        ELSE {}

\* C30: a buildPromptFramework call that returns assembled its prompts for
\* the name of the character's persona when that persona exists and has a
\* non-empty name, else for the username it was given; its system message
\* carries the user-information section exactly when the persona exists
\* and has a non-empty description.
C30_PersonaInPrompt ==
    (last.op = "buildPromptFramework" /\ last.ret # None)
        => LET ret == last.ret[1]
               named == {p \in PersonaOf(last.characterId) : p.name # ""}
               described == {p \in PersonaOf(last.characterId) : p.description # ""}
           IN  /\ \A p \in named :
                     /\ ret.systemMessage.assembledFor = Some(p.name)
                     /\ ret.userMessage.assembledFor = Some(p.name)
               /\ (named = {}
                     => /\ ret.systemMessage.assembledFor = last.username
                        /\ ret.userMessage.assembledFor = last.username)
               /\ (ret.systemMessage.personaSection # None) = (described # {})
               /\ \A p \in described :
                     ret.systemMessage.personaSection[1].userDescription = p.description

\* the character is mapped to a persona that is not the default one; the
\* prompts were assembled for its name and not for the username given,
\* with its description appended
C30_Witness ==
    /\ last.op = "buildPromptFramework"
    /\ last.ret # None
    /\ last.username = Some("Bob")
    /\ \E p \in PersonaOf(last.characterId) :
          /\ ~p.isDefault
          /\ p.name = "Ann"
          /\ p.description = "tall"
    /\ \E i \in 1..Len(personaFile) : personaFile[i].isDefault
    /\ last.ret[1].systemMessage.assembledFor = Some("Ann")
    /\ last.ret[1].systemMessage.personaSection # None


====
